---- MODULE Spec2Model ----
(***************************************************************************)
(* A model of the test-generation and evaluation pipeline of testapi:      *)
(*   - the synthetic test generator   (evals/harness/mocks/openai.js)      *)
(*   - the golden comparator          (evals/harness/liveClient.js)        *)
(*   - the mock request executor      (lib/mockApi.js)                     *)
(*   - the queue runner               (app/page.jsx, App.jsx)              *)
(*   - the evaluators: structure, coverage, intent, golden suite           *)
(*   - the header normalization       (evals/harness/liveClient.js)        *)
(*                                                                         *)
(* JavaScript strings are sequences of one-character strings, so that      *)
(* includes, toLowerCase, endsWith and template literals are computed.     *)
(* A JavaScript value is a record [t, s, n, kv]: t its type tag, s its     *)
(* text (the characters of a string, the decimal digits of a number, the   *)
(* literal of a boolean), n the length of an array, kv the entries of an   *)
(* object.  The objects the generator copies and changes live in a heap    *)
(* and are held by reference, so that aliasing and copying differ.         *)
(*                                                                         *)
(* Each component has its own specification over the shared variables:     *)
(* SpecGen, SpecCmp, SpecApi (with the timer's fairness), SpecRun,         *)
(* SpecRunFair (one Run Suite under a transport that settles every call)   *)
(* and SpecEval.  The variables of the other components stay at their idle *)
(* values.                                                                 *)
(***************************************************************************)
EXTENDS Integers, Sequences, FiniteSets, TLC

VARIABLES
    \* ---- generator: one getMockResponse call at a time
    pointer,        \* the pointer argument
    requestConfig,  \* the requestConfig argument
    count,          \* the count argument
    heap,           \* the objects, by reference (index)
    entropy,        \* the random stream uuidv4 reads during the current call
    genPc,          \* "idle" | "loop"
    i,              \* the loop variable of getMockResponse
    tests,          \* the local array tests of getMockResponse
    returned,       \* the values returned by the calls made so far
    \* ---- mock request executor: one runTest call at a time
    request,        \* the request argument
    apiPc,          \* "idle" | "delay" (awaiting the timer) | "settled"
    response,       \* how the last call settled: the value returned, or a throw
    \* ---- golden comparator: one compareTest call
    generated,      \* the generated argument
    golden,         \* the golden argument
    comparison,     \* the value compareTest returned, NoComparison before the call
    \* ---- queue runner: the page's state and its handlers in progress
    queue,          \* the state tests of the page: the queued tests
    results,        \* the state results of the page: the log, newest first
    suites,         \* the handleRunSuite invocations, in the order they were made
    calls,          \* the handleRunTest invocations awaiting the transport
    replays,        \* the handleReplay invocations awaiting the transport
    clock,          \* the next reading of new Date()
    clicks,         \* how often the operator has pressed a button of the queue
    failures,       \* how often the transport has failed
    \* ---- evaluators: one call of one of the pure evaluation functions
    evalFn,         \* the function called, "none" before the call
    evalArgs,       \* its arguments
    evalResult      \* the value it returned

genVars == <<pointer, requestConfig, count, heap, entropy, genPc, i, tests, returned>>
apiVars == <<request, apiPc, response>>
cmpVars == <<generated, golden, comparison>>
runVars == <<queue, results, suites, calls, replays, clock, clicks, failures>>

evalVars == <<evalFn, evalArgs, evalResult>>

vars == <<genVars, apiVars, cmpVars, runVars, evalVars>>

-----------------------------------------------------------------------------
(* Bounds of the model *)

\* the largest count argument
MaxCount == 18
\* the number of getMockResponse calls made on the same arguments
MaxCalls == 2
\* the number of random streams uuidv4 may read
NumEntropy == 2
\* the largest number of queued tests
MaxQueue == 4
\* the number of times the operator presses Toggle Mode, Run, Run Suite or Replay
MaxClicks == 2
\* the number of calls the transport fails
MaxFailures == 1
\* the longest batch handed to validateTests, analyzeCoverage and the intent evaluator
MaxBatch == 2
\* the largest count of a category in a coverage report handed to calculateCoverageScore
MaxFound == 2
\* the longest suite handed to evaluateIntentAlignment
MaxSuite == 4
\* the longest golden list handed to findBestMatch and compareTestSuite
MaxGolden == 2

-----------------------------------------------------------------------------
(* JavaScript strings *)

UpperCase == <<"A","B","C","D","E","F","G","H","I","J","K","L","M","N","O","P","Q","R","S","T","U","V","W","X","Y","Z">>
LowerCase == <<"a","b","c","d","e","f","g","h","i","j","k","l","m","n","o","p","q","r","s","t","u","v","w","x","y","z">>

\* String.prototype.toLowerCase, one character
LowerChar(c) ==
    IF \E k \in 1..Len(UpperCase) : UpperCase[k] = c
    THEN LowerCase[CHOOSE k \in 1..Len(UpperCase) : UpperCase[k] = c]
    ELSE c

\* String.prototype.toLowerCase
ToLowerCase(str) == [k \in 1..Len(str) |-> LowerChar(str[k])]

\* String.prototype.includes
Includes(str, sub) ==
    \E k \in 0..(Len(str) - Len(sub)) : SubSeq(str, k + 1, k + Len(sub)) = sub

Digits == <<"0","1","2","3","4","5","6","7","8","9">>

\* the decimal text of a non-negative integer, as a template literal prints it
RECURSIVE NumberToString(_)
NumberToString(x) ==
    IF x < 10 THEN <<Digits[x + 1]>>
    ELSE NumberToString(x \div 10) \o <<Digits[(x % 10) + 1]>>

-----------------------------------------------------------------------------
(* JavaScript values *)

Undefined == [t |-> "undefined", s |-> <<>>, n |-> 0, kv |-> <<>>]
Null      == [t |-> "null", s |-> <<>>, n |-> 0, kv |-> <<>>]
Str(s)    == [t |-> "string", s |-> s, n |-> 0, kv |-> <<>>]
Num(ds)   == [t |-> "number", s |-> ds, n |-> 0, kv |-> <<>>]
Bool(b)   == [t |-> "boolean", s |-> IF b THEN <<"t","r","u","e">> ELSE <<"f","a","l","s","e">>, n |-> 0, kv |-> <<>>]
Arr(json, len) == [t |-> "array", s |-> json, n |-> len, kv |-> <<>>]
\* an object held by value: kv its entries
Obj(entries) == [t |-> "object", s |-> <<>>, n |-> 0, kv |-> entries]

\* the typeof operator
TypeOf(v) == IF v.t \in {"null", "array", "object"} THEN "object" ELSE v.t

\* ToBoolean, as || and && and ! apply it
Truthy(v) ==
    CASE v.t = "undefined" -> FALSE
      [] v.t = "null"      -> FALSE
      [] v.t = "string"    -> v.s # <<>>
      [] v.t = "number"    -> v.s \notin {<<"0">>, <<"-","0">>, <<"N","a","N">>}
      [] v.t = "boolean"   -> v.s = <<"t","r","u","e">>
      [] OTHER             -> TRUE

\* String(x) of a number: its decimal text
StringOf(v) == Str(v.s)

\* Number.MAX_SAFE_INTEGER, 2^53 - 1
MAX_SAFE_INTEGER == Num(<<"9","0","0","7","1","9","9","2","5","4","7","4","0","9","9","1">>)

-----------------------------------------------------------------------------
(* Objects: a sequence of [k, v] entries in insertion order (Object.keys)  *)
(* held in the heap; a reference is an index of the heap, 0 is undefined.  *)

NoRef == 0

Entry(k, v) == [k |-> k, v |-> v]

\* Object.keys(obj)
Keys(obj) == [j \in 1..Len(obj) |-> obj[j].k]

HasKey(obj, k) == \E j \in 1..Len(obj) : obj[j].k = k

\* obj[k]
Get(obj, k) ==
    IF HasKey(obj, k) THEN obj[CHOOSE j \in 1..Len(obj) : obj[j].k = k].v
    ELSE Undefined

\* obj[k] = v: an existing key keeps its place, a new key goes last
Put(obj, k, v) ==
    IF HasKey(obj, k)
    THEN [j \in 1..Len(obj) |-> IF obj[j].k = k THEN Entry(k, v) ELSE obj[j]]
    ELSE Append(obj, Entry(k, v))

\* delete obj[k]
Delete(obj, k) == SelectSeq(obj, LAMBDA e : e.k # k)

\* Object.keys(obj).find((k) => typeof obj[k] === type): the position of the
\* first such key, 0 when find returns undefined
FindKeyOfType(obj, type) ==
    IF \E j \in 1..Len(obj) : TypeOf(obj[j].v) = type
    THEN CHOOSE j \in 1..Len(obj) :
            /\ TypeOf(obj[j].v) = type
            /\ \A m \in 1..(j - 1) : TypeOf(obj[m].v) # type
    ELSE 0

\* the escapes JSON.stringify applies inside a string literal
RECURSIVE JsonEscape(_)
JsonEscape(str) ==
    IF str = <<>> THEN <<>>
    ELSE (IF Head(str) \in {"\"", "\\"} THEN <<"\\", Head(str)>> ELSE <<Head(str)>>)
         \o JsonEscape(Tail(str))

RECURSIVE JsonMembers(_)

\* JSON.stringify of a value
JsonValue(v) ==
    CASE v.t = "string" -> <<"\"">> \o JsonEscape(v.s) \o <<"\"">>
      [] v.t = "null"   -> <<"n","u","l","l">>
      [] v.t = "object" -> <<"{">> \o JsonMembers(v.kv) \o <<"}">>
      [] OTHER          -> v.s

\* the members of an object literal: a key whose value is undefined is left out
JsonMembers(obj) ==
    IF obj = <<>> THEN <<>>
    ELSE LET rest == JsonMembers(Tail(obj))
             e == Head(obj)
         IN  IF e.v.t = "undefined" THEN rest
             ELSE <<"\"">> \o JsonEscape(e.k) \o <<"\"",":">> \o JsonValue(e.v)
                  \o (IF rest = <<>> THEN <<>> ELSE <<",">> \o rest)

\* JSON.stringify of an object
JsonStringify(obj) == <<"{">> \o JsonMembers(obj) \o <<"}">>

\* a new object on the heap; its reference is the new length
Alloc(h, obj) == Append(h, obj)

\* aliasing instead of copying
SpreadAliased(h, ref) == [heap |-> h, ref |-> ref]

\* { ...obj }: a shallow copy, a new object
Spread(h, ref) == [heap |-> Alloc(h, h[ref]), ref |-> Len(h) + 1]

\* the value written to the first key of body when no key has the type
AssignFoundOrFirst(h, target, body, type, v) ==
    LET found == IF \E m \in 1..Len(h[body]) : TypeOf(h[body][m].v) = type
                 THEN CHOOSE m \in 1..Len(h[body]) :
                         /\ TypeOf(h[body][m].v) = type
                         /\ \A n \in 1..(m - 1) : TypeOf(h[body][n].v) # type
                 ELSE IF Len(h[body]) > 0 THEN 1 ELSE 0
    IN  IF found = 0 THEN h
        ELSE [h EXCEPT ![target] = Put(h[target], h[body][found].k, v)]

\* if (key) target[key] = v, for the key found in body
AssignFound(h, target, body, type, v) ==
    LET j == FindKeyOfType(h[body], type)
    IN  IF j = 0 THEN h
        ELSE [h EXCEPT ![target] = Put(h[target], h[body][j].k, v)]

-----------------------------------------------------------------------------
(* The synthetic test generator *)

TestType(type, priority, tags) == [type |-> type, priority |-> priority, tags |-> tags]

\* the catalogue of generateMockTest
testTypes == <<
    TestType("user-pointer", <<"h","i","g","h">>, <<<<"u","s","e","r","-","r","e","q","u","e","s","t","e","d">>, <<"d","i","r","e","c","t">>>>),
    TestType("user-pointer", <<"h","i","g","h">>, <<<<"u","s","e","r","-","r","e","q","u","e","s","t","e","d">>, <<"v","a","r","i","a","t","i","o","n">>>>),
    TestType("user-pointer", <<"h","i","g","h">>, <<<<"u","s","e","r","-","r","e","q","u","e","s","t","e","d">>, <<"e","d","g","e","-","c","a","s","e">>>>),
    TestType("empty", <<"m","e","d","i","u","m">>, <<<<"e","m","p","t","y","-","v","a","l","u","e">>, <<"e","d","g","e","-","c","a","s","e">>, <<"n","u","l","l">>>>),
    TestType("empty-null", <<"m","e","d","i","u","m">>, <<<<"e","m","p","t","y","-","v","a","l","u","e">>, <<"n","u","l","l">>, <<"e","d","g","e","-","c","a","s","e">>>>),
    TestType("injection-sql", <<"h","i","g","h">>, <<<<"s","e","c","u","r","i","t","y">>, <<"i","n","j","e","c","t","i","o","n">>, <<"s","q","l">>>>),
    TestType("injection-xss", <<"h","i","g","h">>, <<<<"s","e","c","u","r","i","t","y">>, <<"i","n","j","e","c","t","i","o","n">>, <<"x","s","s">>>>),
    TestType("type-coercion", <<"m","e","d","i","u","m">>, <<<<"t","y","p","e","-","v","a","r","i","a","t","i","o","n">>, <<"t","y","p","e">>>>),
    TestType("missing-field", <<"m","e","d","i","u","m">>, <<<<"m","i","s","s","i","n","g","-","f","i","e","l","d">>, <<"v","a","l","i","d","a","t","i","o","n">>>>),
    TestType("extra-field", <<"l","o","w">>, <<<<"e","x","t","r","a","-","f","i","e","l","d">>, <<"v","a","l","i","d","a","t","i","o","n">>>>),
    TestType("type-coercion-bool", <<"m","e","d","i","u","m">>, <<<<"t","y","p","e","-","v","a","r","i","a","t","i","o","n">>, <<"t","y","p","e">>, <<"b","o","o","l","e","a","n">>>>),
    TestType("boundary", <<"h","i","g","h">>, <<<<"b","o","u","n","d","a","r","y">>, <<"e","d","g","e","-","c","a","s","e">>>>),
    TestType("negative", <<"m","e","d","i","u","m">>, <<<<"b","o","u","n","d","a","r","y">>, <<"n","e","g","a","t","i","v","e">>>>),
    TestType("large-value", <<"m","e","d","i","u","m">>, <<<<"b","o","u","n","d","a","r","y">>, <<"o","v","e","r","f","l","o","w">>>>) >>

DefaultHeaders == <<Entry(<<"C","o","n","t","e","n","t","-","T","y","p","e">>, Str(<<"a","p","p","l","i","c","a","t","i","o","n","/","j","s","o","n">>))>>

\* the name of the default case for every type
TestNameNumbered(type, ptr, index) == <<"G","e","n","e","r","a","t","e","d"," ","t","e","s","t"," ">> \o NumberToString(index + 1)

\* the name the switch of generateMockTest gives
TestName(type, ptr, index) ==
    CASE type = "user-pointer" -> <<"T","e","s","t"," ">> \o ptr \o <<" ","-"," ","v","a","r","i","a","t","i","o","n"," ">> \o NumberToString(index + 1)
      [] type = "boundary" -> <<"T","e","s","t"," ","w","i","t","h"," ","b","o","u","n","d","a","r","y"," ","v","a","l","u","e"," ","0">>
      [] type = "empty" -> <<"T","e","s","t"," ","w","i","t","h"," ","e","m","p","t","y"," ","s","t","r","i","n","g"," ","v","a","l","u","e">>
      [] type = "empty-null" -> <<"T","e","s","t"," ","w","i","t","h"," ","n","u","l","l"," ","v","a","l","u","e"," ","f","o","r"," ","f","i","e","l","d">>
      [] type = "type-coercion" -> <<"T","e","s","t"," ","w","i","t","h"," ","s","t","r","i","n","g"," ","i","n","s","t","e","a","d"," ","o","f"," ","n","u","m","b","e","r"," ","t","y","p","e">>
      [] type = "type-coercion-bool" -> <<"T","e","s","t"," ","w","i","t","h"," ","b","o","o","l","e","a","n"," ","t","y","p","e"," ","i","n","s","t","e","a","d"," ","o","f"," ","s","t","r","i","n","g">>
      [] type = "injection-sql" -> <<"T","e","s","t"," ","w","i","t","h"," ","S","Q","L"," ","i","n","j","e","c","t","i","o","n"," ","p","a","y","l","o","a","d">>
      [] type = "injection-xss" -> <<"T","e","s","t"," ","w","i","t","h"," ","X","S","S"," ","i","n","j","e","c","t","i","o","n"," ","p","a","y","l","o","a","d">>
      [] type = "missing-field" -> <<"T","e","s","t"," ","w","i","t","h"," ","m","i","s","s","i","n","g"," ","r","e","q","u","i","r","e","d"," ","f","i","e","l","d">>
      [] type = "extra-field" -> <<"T","e","s","t"," ","w","i","t","h"," ","u","n","e","x","p","e","c","t","e","d"," ","e","x","t","r","a"," ","f","i","e","l","d">>
      [] type = "negative" -> <<"T","e","s","t"," ","w","i","t","h"," ","n","e","g","a","t","i","v","e"," ","n","u","m","b","e","r"," ","v","a","l","u","e">>
      [] type = "large-value" -> <<"T","e","s","t"," ","w","i","t","h"," ","v","e","r","y"," ","l","a","r","g","e"," ","n","u","m","b","e","r"," ","v","a","l","u","e">>
      [] OTHER -> <<"G","e","n","e","r","a","t","e","d"," ","t","e","s","t"," ">> \o NumberToString(index + 1)

\* the user-pointer case: the pointer's cues applied to the copy tb of body
UserPointerBody(h, tb, body, pointerLower) ==
    LET h1 == IF Includes(pointerLower, <<"0">>) \/ Includes(pointerLower, <<"z","e","r","o">>)
              THEN AssignFound(h, tb, body, "number", Num(<<"0">>))
              ELSE h
    IN  IF Includes(pointerLower, <<"e","m","p","t","y">>)
        THEN AssignFound(h1, tb, body, "string", Str(<<>>))
        ELSE h1

\* the switch of generateMockTest after testBody = { ...body }: the heap with
\* the copy tb changed as the case of the type changes it
MutateBody(h, tb, body, type, pointerLower) ==
    CASE type = "user-pointer" -> UserPointerBody(h, tb, body, pointerLower)
      [] type = "boundary" -> AssignFound(h, tb, body, "number", Num(<<"0">>))
      [] type = "empty" -> AssignFound(h, tb, body, "string", Str(<<>>))
      [] type = "empty-null" -> AssignFound(h, tb, body, "string", Null)
      [] type = "type-coercion" ->
            LET j == FindKeyOfType(h[body], "number")
            IN  IF j = 0 THEN h
                ELSE [h EXCEPT ![tb] = Put(h[tb], h[body][j].k, StringOf(h[body][j].v))]
      [] type = "type-coercion-bool" -> AssignFound(h, tb, body, "string", Bool(TRUE))
      [] type = "injection-sql" ->
            AssignFound(h, tb, body, "string", Str(<<"'",";"," ","D","R","O","P"," ","T","A","B","L","E"," ","u","s","e","r","s",";"," ","-","-">>))
      [] type = "injection-xss" ->
            AssignFound(h, tb, body, "string", Str(<<"<","s","c","r","i","p","t",">","a","l","e","r","t","(","\"","x","s","s","\"",")","<","/","s","c","r","i","p","t",">">>))
      [] type = "missing-field" ->
            IF Len(h[tb]) > 0
            THEN [h EXCEPT ![tb] = Delete(h[tb], Keys(h[tb])[1])]
            ELSE h
      [] type = "extra-field" ->
            [h EXCEPT ![tb] = Put(h[tb], <<"u","n","e","x","p","e","c","t","e","d","F","i","e","l","d">>, Str(<<"u","n","e","x","p","e","c","t","e","d","_","v","a","l","u","e">>))]
      [] type = "negative" -> AssignFound(h, tb, body, "number", Num(<<"-","1">>))
      [] type = "large-value" -> AssignFound(h, tb, body, "number", MAX_SAFE_INTEGER)
      [] OTHER -> h

\* index < 3 ? 'auto' : (index % 2 === 0 ? 'auto' : 'manual')
\* the run modes spelled out
RunModeSpelledOut(index) ==
    IF index < 3 THEN <<"a","u","t","o","m","a","t","i","c">> ELSE IF index % 2 = 0 THEN <<"a","u","t","o","m","a","t","i","c">> ELSE <<"m","a","n","u","a","l">>

\* a run mode drawn at random
RunModeRandom(index) == IF entropy = 1 THEN <<"a","u","t","o">> ELSE <<"m","a","n","u","a","l">>

\* run_mode: index < 3 ? 'auto' : (index % 2 === 0 ? 'auto' : 'manual')
RunModeOf(index) ==
    IF index < 3 THEN <<"a","u","t","o">> ELSE IF index % 2 = 0 THEN <<"a","u","t","o">> ELSE <<"m","a","n","u","a","l">>

\* the catalogue not repeated: its last entry for every index past its end
TestTypeClamped(index) ==
    testTypes[IF index < Len(testTypes) THEN index + 1 ELSE Len(testTypes)]

\* const testType = testTypes[index % testTypes.length]
TestTypeAt(index) == testTypes[(index % Len(testTypes)) + 1]

\* generateMockTest(pointer, requestConfig, index, userRequested), on heap h
\* and with id the value uuidv4() returns: the test and the heap after it
generateMockTest(h, ptr, cfg, index, userRequested, id) ==
    LET pointerLower == ToLowerCase(ptr)
        \* const body = requestConfig.body || {}
        h1 == IF cfg.body = NoRef THEN Alloc(h, <<>>) ELSE h
        body == IF cfg.body = NoRef THEN Len(h1) ELSE cfg.body
        testType == TestTypeAt(index)
        method == IF Truthy(cfg.method) THEN cfg.method ELSE Str(<<"P","O","S","T">>)
        path == IF Truthy(cfg.path) THEN cfg.path ELSE Str(<<"/","a","p","i","/","t","e","s","t">>)
        copy == Spread(h1, body)
        h2 == MutateBody(copy.heap, copy.ref, body, testType.type, pointerLower)
        \* headers: requestConfig.headers || { 'Content-Type': 'application/json' }
        h3 == IF cfg.headers = NoRef THEN Alloc(h2, DefaultHeaders) ELSE h2
        headers == IF cfg.headers = NoRef THEN Len(h3) ELSE cfg.headers
    IN  [ heap |-> h3,
          test |-> [ id |-> id,
                     name |-> TestName(testType.type, ptr, index),
                     request |-> [ method |-> method, path |-> path,
                                   headers |-> headers, body |-> copy.ref ],
                     tags |-> testType.tags,
                     priority |-> testType.priority,
                     run_mode |-> RunModeOf(index),
                     user_requested |-> userRequested ] ]

\* uuidv4(): the k-th draw of random stream e
uuidv4(e, k) == <<e, k>>

\* the flag with the bound off by one
UserRequestedOffByOne(index) == index <= 3

\* const userRequested = i < 3
UserRequestedAt(index) == index < 3

\* the loop condition of getMockResponse
LoopContinues(index, cnt) == index < cnt

\* a call of getMockResponse(pointer, requestConfig, count) starts
GetMockResponseCall ==
    /\ genPc = "idle"
    /\ Len(returned) < MaxCalls
    /\ \E e \in 1..NumEntropy : entropy' = e
    /\ tests' = <<>>
    /\ i' = 0
    /\ genPc' = "loop"
    /\ UNCHANGED <<pointer, requestConfig, count, heap, returned>>

\* one iteration of the for loop
GetMockResponseLoop ==
    /\ genPc = "loop"
    /\ LoopContinues(i, count)
    /\ LET r == generateMockTest(heap, pointer, requestConfig, i,
                                 UserRequestedAt(i), uuidv4(entropy, i))
       IN  /\ tests' = Append(tests, r.test)
           /\ heap' = r.heap
    /\ i' = i + 1
    /\ UNCHANGED <<pointer, requestConfig, count, entropy, genPc, returned>>

\* return { tests, count: tests.length }
GetMockResponseReturn ==
    /\ genPc = "loop"
    /\ ~LoopContinues(i, count)
    /\ returned' = Append(returned, [tests |-> tests, count |-> Len(tests)])
    /\ genPc' = "idle"
    /\ UNCHANGED <<pointer, requestConfig, count, heap, entropy, i, tests>>

-----------------------------------------------------------------------------
(* The generator's inputs *)

Pointers == { <<"a","m","o","u","n","t"," ","i","s"," ","0">>, <<"Z","e","r","o"," ","t","o","t","a","l">>, <<"E","M","P","T","Y"," ","n","a","m","e">>, <<"l","o","g","i","n"," ","f","l","o","w">> }

OrdersBody == <<Entry(<<"a","m","o","u","n","t">>, Num(<<"1","0","0">>)), Entry(<<"c","u","r","r","e","n","c","y">>, Str(<<"U","S","D">>))>>
NameBody   == <<Entry(<<"n","a","m","e">>, Str(<<"A","l">>))>>
ItemsBody  == <<Entry(<<"i","t","e","m","s">>, Arr(<<"[","{","\"","s","k","u","\"",":","\"","S","1","\"","}","]">>, 1)), Entry(<<"q","t","y">>, Num(<<"5">>))>>

\* a requestConfig with its heap: headers at reference 1, body at reference 2
ConfigWith(body) ==
    [ heap |-> <<DefaultHeaders, body>>,
      cfg  |-> [ method |-> Str(<<"P","U","T">>), path |-> Str(<<"/","o","r","d","e","r","s">>),
                 headers |-> 1, body |-> 2 ] ]

\* a requestConfig with no method, path, headers or body
BareConfig ==
    [ heap |-> <<>>,
      cfg  |-> [ method |-> Undefined, path |-> Undefined,
                 headers |-> NoRef, body |-> NoRef ] ]

\* a requestConfig whose path has no leading slash
RelativeConfig ==
    [ heap |-> <<>>,
      cfg  |-> [ method |-> Str(<<"D","E","L","E","T","E">>), path |-> Str(<<"o","r","d","e","r","s","/","7">>),
                 headers |-> NoRef, body |-> NoRef ] ]

GenInputs ==
    { ConfigWith(OrdersBody), ConfigWith(NameBody), ConfigWith(ItemsBody),
      ConfigWith(<<>>), BareConfig, RelativeConfig }

-----------------------------------------------------------------------------
(* The uniqueness evaluator *)

\* Array.prototype.indexOf, counted from 1; 0 when the element is absent
IndexOf(seq, x) ==
    IF \E k \in 1..Len(seq) : seq[k] = x
    THEN CHOOSE k \in 1..Len(seq) : seq[k] = x /\ \A m \in 1..(k - 1) : seq[m] # x
    ELSE 0

\* [...new Set(seq)]: the first occurrence of each element, in order
RECURSIVE SetOrder(_)
SetOrder(seq) ==
    IF seq = <<>> THEN <<>>
    ELSE LET front == SetOrder(SubSeq(seq, 1, Len(seq) - 1))
             last == seq[Len(seq)]
         IN  IF IndexOf(front, last) # 0 THEN front ELSE Append(front, last)

\* names.filter((name, index) => names.indexOf(name) !== index), up to position k
RECURSIVE DuplicateNames(_, _)
DuplicateNames(names, k) ==
    IF k = 0 THEN <<>>
    ELSE LET front == DuplicateNames(names, k - 1)
         IN  IF IndexOf(names, names[k]) # k THEN Append(front, names[k]) ELSE front

\* checkUniqueness(tests), the bodies read from heap h
checkUniqueness(ts, h) ==
    LET names == [k \in 1..Len(ts) |-> ts[k].name]
        bodies == [k \in 1..Len(ts) |-> JsonStringify(h[ts[k].request.body])]
        uniqueNames == {names[k] : k \in 1..Len(names)}
        uniqueBodies == {bodies[k] : k \in 1..Len(bodies)}
    IN  [ uniqueCount |-> Cardinality(uniqueNames),
          totalCount  |-> Len(ts),
          duplicates  |-> SetOrder(DuplicateNames(names, Len(names))),
          isUnique    |-> /\ Cardinality(uniqueNames) = Len(ts)
                          /\ Cardinality(uniqueBodies) = Len(ts) ]

-----------------------------------------------------------------------------
(* The mock request executor *)

\* what a property read of undefined or null throws
TypeError == [t |-> "TypeError", s |-> <<>>, n |-> 0, kv |-> <<>>]

\* v.k
Prop(v, k) ==
    CASE v.t \in {"undefined", "null"} -> TypeError
      [] v.t = "object" -> Get(v.kv, k)
      [] OTHER -> Undefined

\* v.k where the code has v && v.k: the guard left out
PropUnguarded(v, k) == Prop(v, k)

\* v && v.k
AndProp(v, k) == IF Truthy(v) THEN Prop(v, k) ELSE v

\* a === b for primitives
StrictEquals(a, b) == a.t = b.t /\ a.s = b.s

WhiteSpace == {" ", "\t", "\n", "\r"}

\* String.prototype.trim
RECURSIVE Trim(_)
Trim(str) ==
    IF str = <<>> THEN <<>>
    ELSE IF Head(str) \in WhiteSpace THEN Trim(Tail(str))
    ELSE IF str[Len(str)] \in WhiteSpace THEN Trim(SubSeq(str, 1, Len(str) - 1))
    ELSE str

\* String.prototype.endsWith
EndsWith(str, suffix) ==
    /\ Len(suffix) <= Len(str)
    /\ SubSeq(str, Len(str) - Len(suffix) + 1, Len(str)) = suffix

\* the values Math.random() takes in the model, in ten-thousandths
RandomDraws == {0, 4999, 5000, 5001, 9999}

\* Math.random() > 0.5
AboveHalf(x) == x > 5000

\* Math.floor(Math.random() * 10000)
Floor10000(x) == x

\* a settled call: a returned response, or a throw (a rejected promise)
Returns(status, body, headers) ==
    [kind |-> "return", status |-> status, body |-> body, headers |-> headers]
Throws == [kind |-> "throw", status |-> 0, body |-> Undefined, headers |-> Undefined]
NoResponse == [kind |-> "none", status |-> 0, body |-> Undefined, headers |-> Undefined]

\* typeof body === 'string' && body.trim().endsWith(']') === false
TruncatedJson(body) == body.t = "string" /\ ~EndsWith(Trim(body.s), <<"]">>)

\* const amount = body && body.amount
AmountOf(body) == AndProp(body, <<"a","m","o","u","n","t">>)

\* amount === 0
IsZero(amount) == StrictEquals(amount, Num(<<"0">>))

\* body && body.currency === 'XYZ'
InvalidCurrency(body) ==
    Truthy(body) /\ StrictEquals(Prop(body, <<"c","u","r","r","e","n","c","y">>), Str(<<"X","Y","Z">>))

\* Array.isArray(body && body.items) && body.items.length === 0
ItemsEmpty(body) ==
    LET items == AndProp(body, <<"i","t","e","m","s">>)
    IN  items.t = "array" /\ Prop(body, <<"i","t","e","m","s">>).n = 0

TruncatedResponse ==
    Returns(400, Str(<<"<","h","t","m","l",">","B","a","d"," ","r","e","q","u","e","s","t","<","/","h","t","m","l",">">>),
            Obj(<<Entry(<<"c","o","n","t","e","n","t","-","t","y","p","e">>, Str(<<"t","e","x","t","/","h","t","m","l">>))>>))
ZeroAmount500 ==
    Returns(500, Obj(<<Entry(<<"e","r","r","o","r">>, Str(<<"s","e","r","v","e","r"," ","e","r","r","o","r"," ","p","r","o","c","e","s","s","i","n","g"," ","z","e","r","o"," ","a","m","o","u","n","t">>))>>), Undefined)
ZeroAmount400 ==
    Returns(400, Obj(<<Entry(<<"e","r","r","o","r">>, Str(<<"a","m","o","u","n","t"," ","m","u","s","t"," ","b","e"," ",">"," ","0">>))>>), Undefined)
InvalidCurrencyResponse ==
    Returns(400, Obj(<<Entry(<<"e","r","r","o","r">>, Str(<<"i","n","v","a","l","i","d"," ","c","u","r","r","e","n","c","y">>))>>), Undefined)
ItemsRequiredResponse ==
    Returns(400, Obj(<<Entry(<<"e","r","r","o","r">>, Str(<<"i","t","e","m","s"," ","r","e","q","u","i","r","e","d">>))>>), Undefined)
OrderAccepted(x) ==
    Returns(201, Obj(<<Entry(<<"i","d">>, Str(<<"o","r","d","_">> \o NumberToString(Floor10000(x)))),
                       Entry(<<"a","c","c","e","p","t","e","d">>, Bool(TRUE))>>),
            Obj(<<Entry(<<"c","o","n","t","e","n","t","-","t","y","p","e">>, Str(<<"a","p","p","l","i","c","a","t","i","o","n","/","j","s","o","n">>))>>))

\* the two outcomes of the amount rule, by the draw of Math.random()
ZeroAmountOutcomes ==
    {IF AboveHalf(x) THEN ZeroAmount500 ELSE ZeroAmount400 : x \in RandomDraws}

\* the rules of path /orders with the currency rule tried before the amount rule
OrdersOutcomesCurrencyFirst(body) ==
    IF TruncatedJson(body) THEN {TruncatedResponse}
    ELSE IF AmountOf(body) = TypeError THEN {Throws}
    ELSE IF InvalidCurrency(body) THEN {InvalidCurrencyResponse}
    ELSE IF IsZero(AmountOf(body)) THEN ZeroAmountOutcomes
    ELSE IF ItemsEmpty(body) THEN {ItemsRequiredResponse}
    ELSE {OrderAccepted(x) : x \in RandomDraws}

\* the rules of path /orders, in the order of the code
OrdersOutcomes(body) ==
    IF TruncatedJson(body) THEN {TruncatedResponse}
    ELSE IF AmountOf(body) = TypeError THEN {Throws}
    ELSE IF IsZero(AmountOf(body)) THEN ZeroAmountOutcomes
    ELSE IF InvalidCurrency(body) THEN {InvalidCurrencyResponse}
    ELSE IF ItemsEmpty(body) THEN {ItemsRequiredResponse}
    ELSE {OrderAccepted(x) : x \in RandomDraws}

MissingEmailResponse ==
    Returns(500, Obj(<<Entry(<<"e","r","r","o","r">>, Str(<<"m","i","s","s","i","n","g"," ","e","m","a","i","l"," ","(","s","i","m","u","l","a","t","e","d"," ","s","e","r","v","e","r"," ","b","u","g",")">>))>>), Undefined)
DuplicateResponse ==
    Returns(409, Obj(<<Entry(<<"e","r","r","o","r">>, Str(<<"d","u","p","l","i","c","a","t","e">>))>>), Undefined)
UserCreated(x) ==
    Returns(201, Obj(<<Entry(<<"i","d">>, Str(<<"u","s","e","r","_">> \o NumberToString(Floor10000(x))))>>), Undefined)

\* the missing-email test without its !body.email half
EmailMissingBodyOnly(body) == ~Truthy(body)

\* !body || !body.email
EmailMissing(body) == ~Truthy(body) \/ ~Truthy(Prop(body, <<"e","m","a","i","l">>))

\* the rules of path /users, in the order of the code
UsersOutcomes(body) ==
    IF EmailMissing(body) THEN {MissingEmailResponse}
    ELSE IF StrictEquals(Prop(body, <<"e","m","a","i","l">>), Str(<<"d","u","p","l","i","c","a","t","e","@","e","x","a","m","p","l","e",".","c","o","m">>))
         THEN {DuplicateResponse}
    ELSE {UserCreated(x) : x \in RandomDraws}

\* runTest(request) after the delay: the ways the call can settle
runTestOutcomes(req) ==
    IF StrictEquals(req.path, Str(<<"/","o","r","d","e","r","s">>)) THEN OrdersOutcomes(req.body)
    ELSE IF StrictEquals(req.path, Str(<<"/","u","s","e","r","s">>)) THEN UsersOutcomes(req.body)
    ELSE {Returns(200, Obj(<<>>), Undefined)}

\* runTest is called: it logs, starts the timer and awaits it
RunTestCall ==
    /\ apiPc \in {"idle", "settled"}
    /\ apiPc' = "delay"
    /\ response' = NoResponse
    /\ UNCHANGED request

\* the timer fires: the rest of runTest runs and the call settles
RunTestResume ==
    /\ apiPc = "delay"
    /\ \E out \in runTestOutcomes(request) : response' = out
    /\ apiPc' = "settled"
    /\ UNCHANGED request

\* the requests of the model
ApiPaths == { Str(<<"/","o","r","d","e","r","s">>), Str(<<"/","u","s","e","r","s">>), Str(<<"/","f","x","/","r","a","t","e">>), Undefined }

OptionalEntry(k, values) == {<<>>} \cup {<<Entry(k, v)>> : v \in values}

ApiObjects ==
    { a \o c \o it \o e :
        a \in OptionalEntry(<<"a","m","o","u","n","t">>, {Num(<<"0">>), Str(<<"0">>), Num(<<"1","0","0">>), Null}),
        c \in OptionalEntry(<<"c","u","r","r","e","n","c","y">>, {Str(<<"U","S","D">>), Str(<<"X","Y","Z">>)}),
        it \in OptionalEntry(<<"i","t","e","m","s">>, {Arr(<<"[","]">>, 0), Arr(<<"[","{","\"","s","k","u","\"",":","\"","S","1","\"",",","\"","q","t","y","\"",":","1","}","]">>, 1)}),
        e \in OptionalEntry(<<"e","m","a","i","l">>, {Str(<<>>), Str(<<"d","u","p","l","i","c","a","t","e","@","e","x","a","m","p","l","e",".","c","o","m">>),
                                       Str(<<"a","@","b",".","c","o","m">>), Null, Num(<<"0">>), Bool(TRUE)}) }

ApiBodies ==
    { Undefined, Null, Num(<<"0">>), Num(<<"7">>), Str(<<>>), Str(<<"[","1",","," ","2","]">>), Str(<<"[","1","]"," ">>),
      Str(<<"{"," ","\"","a","m","o","u","n","t","\"",":"," ","0",","," ","\"","i","t","e","m","s","\"",":"," ","["," ","{">>),
      Arr(<<"[","]">>, 0) }
    \cup { Obj(o) : o \in ApiObjects }

ApiRequests == { [path |-> p, body |-> b] : p \in ApiPaths, b \in ApiBodies }

InitApi ==
    /\ request \in ApiRequests
    /\ apiPc = "idle"
    /\ response = NoResponse

ApiIdle ==
    /\ request = [path |-> Undefined, body |-> Undefined]
    /\ apiPc = "idle"
    /\ response = NoResponse

-----------------------------------------------------------------------------
(* The golden comparator *)

\* how a template literal prints a value
Printed(v) ==
    CASE v.t = "undefined" -> <<"u","n","d","e","f","i","n","e","d">>
      [] v.t = "null" -> <<"n","u","l","l">>
      [] OTHER -> v.s

\* test.request?.field
OptionalProp(req, field) == IF req.t = "object" THEN Get(req.kv, field) ELSE Undefined

\* Object.keys of a value: the keys of an object, the indices of a string or array
KeysOf(v) ==
    CASE v.t = "object" -> Keys(v.kv)
      [] v.t = "string" -> [k \in 1..Len(v.s) |-> NumberToString(k - 1)]
      [] v.t = "array"  -> [k \in 1..v.n |-> NumberToString(k - 1)]
      [] OTHER -> <<>>

\* Object.keys(test.request?.body || {})
BodyKeys(test) ==
    LET body == OptionalProp(test.request, <<"b","o","d","y">>)
    IN  IF Truthy(body) THEN KeysOf(body) ELSE <<>>

\* new Set(test.tags || [])
TagSet(test) == IF test.tags.t = "array" THEN {test.tags.items[k] : k \in 1..Len(test.tags.items)} ELSE {}

\* Math.round(num / den * 100) for 0 <= num, 0 < den
RoundPercent(num, den) == (200 * num + den) \div (2 * den)

\* goldenTags.size > 0 ? commonTags.length / goldenTags.size : 0, as [num, den]
TagOverlap(genTags, goldenTags) ==
    IF Cardinality(goldenTags) > 0
    THEN [num |-> Cardinality(genTags \cap goldenTags), den |-> Cardinality(goldenTags)]
    ELSE [num |-> 0, den |-> 1]

\* one check of compareTest: its name pushed to matches, or its message to mismatches
Check(ok, name, message) == [ok |-> ok, name |-> name, message |-> message]

Quoted(v) == <<"\"">> \o Printed(v) \o <<"\"">>

\* the comma-joined text of a list of strings
RECURSIVE JoinComma(_)
JoinComma(seq) ==
    IF seq = <<>> THEN <<>>
    ELSE IF Len(seq) = 1 THEN seq[1]
    ELSE seq[1] \o <<","," ">> \o JoinComma(Tail(seq))

\* the six checks of compareTest, in order
CompareChecks(gen, gold) ==
    LET gm == OptionalProp(gen.request, <<"m","e","t","h","o","d">>)
        om == OptionalProp(gold.request, <<"m","e","t","h","o","d">>)
        gp == OptionalProp(gen.request, <<"p","a","t","h">>)
        op == OptionalProp(gold.request, <<"p","a","t","h">>)
        overlap == TagOverlap(TagSet(gen), TagSet(gold))
        genBodyKeys == BodyKeys(gen)
        goldenBodyKeys == BodyKeys(gold)
        missing == SelectSeq(goldenBodyKeys, LAMBDA k : IndexOf(genBodyKeys, k) = 0)
    IN  << Check(gm = om, <<"m","e","t","h","o","d">>,
                 <<"m","e","t","h","o","d",":"," ","g","o","t"," ">> \o Quoted(gm) \o <<","," ","e","x","p","e","c","t","e","d"," ">> \o Quoted(om)),
           Check(gp = op, <<"p","a","t","h">>,
                 <<"p","a","t","h",":"," ","g","o","t"," ">> \o Quoted(gp) \o <<","," ","e","x","p","e","c","t","e","d"," ">> \o Quoted(op)),
           Check(gen.priority = gold.priority, <<"p","r","i","o","r","i","t","y">>,
                 <<"p","r","i","o","r","i","t","y",":"," ","g","o","t"," ">> \o Quoted(gen.priority) \o <<","," ","e","x","p","e","c","t","e","d"," ">> \o Quoted(gold.priority)),
           Check(gen.user_requested = gold.user_requested, <<"u","s","e","r","_","r","e","q","u","e","s","t","e","d">>,
                 <<"u","s","e","r","_","r","e","q","u","e","s","t","e","d",":"," ","g","o","t"," ">> \o Printed(gen.user_requested)
                    \o <<","," ","e","x","p","e","c","t","e","d"," ">> \o Printed(gold.user_requested)),
           \* tagOverlap >= 0.5
           Check(2 * overlap.num >= overlap.den, <<"t","a","g","s">>,
                 <<"t","a","g","s",":"," ">> \o NumberToString(RoundPercent(overlap.num, overlap.den)) \o <<"%"," ","o","v","e","r","l","a","p">>),
           Check(missing = <<>>, <<"b","o","d","y","_","s","t","r","u","c","t","u","r","e">>,
                 <<"b","o","d","y","_","s","t","r","u","c","t","u","r","e",":"," ","m","i","s","s","i","n","g"," ","k","e","y","s"," ","[">> \o JoinComma(missing) \o <<"]">>) >>

\* compareTest(generated, golden); the score is the fraction num / den
compareTest(gen, gold) ==
    LET checks == CompareChecks(gen, gold)
        passed == SelectSeq(checks, LAMBDA c : c.ok)
        failed == SelectSeq(checks, LAMBDA c : ~c.ok)
        matches == [k \in 1..Len(passed) |-> passed[k].name]
        mismatches == [k \in 1..Len(failed) |-> failed[k].message]
        totalChecks == Len(matches) + Len(mismatches)
    IN  [ score |-> IF totalChecks > 0 THEN [num |-> Len(matches), den |-> totalChecks]
                    ELSE [num |-> 0, den |-> 1],
          matches |-> matches,
          mismatches |-> mismatches ]

NoComparison == [score |-> [num |-> 0, den |-> 1], matches |-> <<>>, mismatches |-> <<"none">>]

\* compareTest is called on the two tests
CompareTestCall ==
    /\ comparison = NoComparison
    /\ comparison' = compareTest(generated, golden)
    /\ UNCHANGED <<generated, golden>>

\* the tests of the model: tags absent, empty or given; body absent, a raw
\* string or an object
Tags(items) == [t |-> "array", items |-> items]
NoTags == [t |-> "undefined", items |-> <<>>]

CmpTagLists ==
    { NoTags, Tags(<<>>), Tags(<<<<"b","o","u","n","d","a","r","y">>>>), Tags(<<<<"b","o","u","n","d","a","r","y">>, <<"e","d","g","e","-","c","a","s","e">>>>),
      Tags(<<<<"s","e","c","u","r","i","t","y">>, <<"b","o","u","n","d","a","r","y">>, <<"s","q","l">>>>) }

CmpBodies ==
    { Undefined, Str(<<"[","1">>), Obj(<<>>), Obj(<<Entry(<<"a","m","o","u","n","t">>, Num(<<"0">>))>>),
      Obj(<<Entry(<<"a","m","o","u","n","t">>, Num(<<"1","0","0">>)), Entry(<<"c","u","r","r","e","n","c","y">>, Str(<<"U","S","D">>))>>) }

CmpRequests ==
    { Obj(<<Entry(<<"m","e","t","h","o","d">>, m), Entry(<<"p","a","t","h">>, Str(<<"/","o","r","d","e","r","s">>)), Entry(<<"b","o","d","y">>, b)>>) :
        m \in {Str(<<"P","O","S","T">>), Str(<<"G","E","T">>)}, b \in CmpBodies }

CmpTests ==
    { [ name |-> <<"t">>, request |-> r, tags |-> tg, priority |-> pr, user_requested |-> ur ] :
        r \in CmpRequests, tg \in CmpTagLists,
        pr \in {Str(<<"h","i","g","h">>)}, ur \in {Bool(TRUE), Bool(FALSE)} }
    \cup
    { [ name |-> <<"t">>, request |-> Undefined, tags |-> NoTags,
        priority |-> Undefined, user_requested |-> Undefined ] }

InitCmp ==
    /\ generated \in CmpTests
    /\ golden \in CmpTests
    /\ comparison = NoComparison

CmpIdle ==
    /\ generated = Undefined
    /\ golden = Undefined
    /\ comparison = NoComparison

-----------------------------------------------------------------------------
(* The queue runner *)

\* a queued test; request stands for the request object the test refers to
QueuedTest(id, name, userRequested, runMode) ==
    [ id |-> id, name |-> name, request |-> id,
      user_requested |-> userRequested, run_mode |-> runMode ]

\* what the transport gives back: the relayed response, or a failure
DataReply(status) == [kind |-> "data", status |-> status]
ErrorReply == [kind |-> "error", status |-> 0]
NoReply == [kind |-> "none", status |-> 0]
Replies == {DataReply(200), ErrorReply}

\* const log = { testName, startedAt, request }
PendingLog(test, now) ==
    [ testName |-> test.name, startedAt |-> now, request |-> test.request,
      finishedAt |-> 0, response |-> NoReply ]

\* const updated = { ...log } instead when the transport failed: the catch
\* block logs no response
FinishedLogUnlessFailed(log, now, reply) ==
    IF reply = ErrorReply THEN log
    ELSE [log EXCEPT !.finishedAt = now, !.response = reply]

\* const updated = { ...log, finishedAt, response }
FinishedLog(log, now, reply) == [log EXCEPT !.finishedAt = now, !.response = reply]

\* the queue positions, in the order filter visits them
Positions(ts) == [k \in 1..Len(ts) |-> k]

\* the queue run as it stands, without the user-requested tests first
QueueOrder(ts) == Positions(ts)

\* tests.filter(t => t.user_requested).concat(tests.filter(t => !t.user_requested)),
\* as queue positions
PriorityOrder(ts) ==
    SelectSeq(Positions(ts), LAMBDA k : ts[k].user_requested)
    \o SelectSeq(Positions(ts), LAMBDA k : ~ts[k].user_requested)

\* if (t.run_mode === 'manual') continue
Skipped(test) == test.run_mode = <<"m","a","n","u","a","l">>

\* the loop left after its first await: only the first test is run
NextToRunOnce(ts, priority, p) ==
    IF p = 1 /\ \E q \in 1..Len(priority) : ~Skipped(ts[priority[q]])
    THEN CHOOSE q \in 1..Len(priority) :
            /\ ~Skipped(ts[priority[q]])
            /\ \A r \in 1..(q - 1) : Skipped(ts[priority[r]])
    ELSE Len(priority) + 1

\* the for loop of handleRunSuite from place p of priority on: the place of
\* the first test it runs, Len(priority) + 1 when it runs none
NextToRun(ts, priority, p) ==
    IF \E q \in p..Len(priority) : ~Skipped(ts[priority[q]])
    THEN CHOOSE q \in p..Len(priority) :
            /\ ~Skipped(ts[priority[q]])
            /\ \A r \in p..(q - 1) : Skipped(ts[priority[r]])
    ELSE Len(priority) + 1

\* prev => { ...; return [...filtered, ...prev] } of addGeneratedTests
MergeGenerated(prev, incoming) ==
    LET existingNames == {prev[k].name : k \in 1..Len(prev)}
        filtered == SelectSeq(incoming, LAMBDA g : g.name \notin existingNames)
    IN  filtered \o prev

\* addGeneratedTests(generated)
AddGeneratedTests(batch) ==
    /\ Len(MergeGenerated(queue, batch)) <= MaxQueue
    /\ MergeGenerated(queue, batch) # queue
    /\ queue' = MergeGenerated(queue, batch)
    /\ UNCHANGED <<results, suites, calls, replays, clock, clicks, failures>>

\* toggleRunMode(id) of QueueView
ToggleRunMode(id) ==
    /\ clicks < MaxClicks
    /\ \E k \in 1..Len(queue) : queue[k].id = id
    /\ queue' = [k \in 1..Len(queue) |->
                    IF queue[k].id = id
                    THEN [queue[k] EXCEPT !.run_mode =
                            IF queue[k].run_mode = <<"a","u","t","o">> THEN <<"m","a","n","u","a","l">> ELSE <<"a","u","t","o">>]
                    ELSE queue[k]]
    /\ clicks' = clicks + 1
    /\ UNCHANGED <<results, suites, calls, replays, clock, failures>>

\* handleRunTest(test) up to its await: the pending entry is logged and the
\* request is sent; owner is the suite invocation that awaits it, 0 for none
RunTestStarted(test, owner, now) == [owner |-> owner, log |-> PendingLog(test, now)]

\* the Run button of a queued test: handleRunTest(test)
HandleRunTest(k) ==
    /\ clicks < MaxClicks
    /\ k \in 1..Len(queue)
    /\ results' = <<PendingLog(queue[k], clock)>> \o results
    /\ calls' = calls \cup {RunTestStarted(queue[k], 0, clock)}
    /\ clock' = clock + 1
    /\ clicks' = clicks + 1
    /\ UNCHANGED <<queue, suites, replays, failures>>

\* handleRunSuite without the await: every test the loop runs is started at once
HandleRunSuiteNoAwait ==
    /\ clicks < MaxClicks
    /\ clicks' = clicks + 1
    /\ LET priority == PriorityOrder(queue)
           run == SelectSeq(priority, LAMBDA k : ~Skipped(queue[k]))
           s == Len(suites) + 1
       IN  /\ suites' = Append(suites,
                 [ tests |-> queue, priority |-> priority, pos |-> Len(priority) + 1,
                   ran |-> [k \in 1..Len(run) |-> [qpos |-> run[k], startedAt |-> clock + k - 1]] ])
           /\ results' = [k \in 1..Len(run) |->
                             PendingLog(queue[run[Len(run) + 1 - k]], clock + Len(run) - k)]
                         \o results
           /\ calls' = calls \cup
                 {RunTestStarted(queue[run[k]], s, clock + k - 1) : k \in 1..Len(run)}
           /\ clock' = clock + Len(run)
    /\ UNCHANGED <<queue, replays, failures>>

\* the Run Suite button: handleRunSuite up to its first await.  It reads the
\* queue of the render it was created in, orders it, skips to the first test
\* it runs and starts it
HandleRunSuite ==
    /\ clicks < MaxClicks
    /\ clicks' = clicks + 1
    /\ LET priority == PriorityOrder(queue)
           p == NextToRun(queue, priority, 1)
           s == Len(suites) + 1
       IN  IF p <= Len(priority)
           THEN /\ suites' = Append(suites,
                      [ tests |-> queue, priority |-> priority, pos |-> p,
                        ran |-> <<[qpos |-> priority[p], startedAt |-> clock]>> ])
                /\ results' = <<PendingLog(queue[priority[p]], clock)>> \o results
                /\ calls' = calls \cup {RunTestStarted(queue[priority[p]], s, clock)}
                /\ clock' = clock + 1
           ELSE /\ suites' = Append(suites,
                      [ tests |-> queue, priority |-> priority, pos |-> p, ran |-> <<>> ])
                /\ UNCHANGED <<results, calls, clock>>
    /\ UNCHANGED <<queue, replays, failures>>

\* the transport settles a call: handleRunTest logs the finished entry (the
\* reply, or { error } from its catch) and returns; the suite that awaited it
\* goes on to the next test it runs and starts it, or completes
TransportSettles(c, reply) ==
    /\ c \in calls
    /\ IF reply = ErrorReply
       THEN failures < MaxFailures /\ failures' = failures + 1
       ELSE UNCHANGED failures
    /\ LET updated == FinishedLog(c.log, clock, reply)
           s == c.owner
       IN  IF s # 0 /\ suites[s].pos <= Len(suites[s].priority)
           THEN LET su == suites[s]
                    p == NextToRun(su.tests, su.priority, su.pos + 1)
                IN  IF p <= Len(su.priority)
                    THEN LET next == su.tests[su.priority[p]]
                         IN  /\ results' = <<PendingLog(next, clock + 1), updated>> \o results
                             /\ calls' = (calls \ {c}) \cup {RunTestStarted(next, s, clock + 1)}
                             /\ clock' = clock + 2
                             /\ suites' = [suites EXCEPT ![s] =
                                   [su EXCEPT !.pos = p,
                                              !.ran = Append(@, [qpos |-> su.priority[p],
                                                                 startedAt |-> clock + 1])]]
                    ELSE /\ results' = <<updated>> \o results
                         /\ calls' = calls \ {c}
                         /\ clock' = clock + 1
                         /\ suites' = [suites EXCEPT ![s] = [su EXCEPT !.pos = p]]
           ELSE /\ results' = <<updated>> \o results
                /\ calls' = calls \ {c}
                /\ clock' = clock + 1
                /\ UNCHANGED suites
    /\ UNCHANGED <<queue, replays, clicks>>

\* setResults(prev => [replayLog]) instead: the log is replaced
ReplaceLog(entry, prev) == <<entry>>

\* setResults(prev => [replayLog, ...prev])
PrependLog(entry, prev) == <<entry>> \o prev

\* const replayLog = { testName: 'replay', startedAt, request: requestObj,
\*                     finishedAt, response }
ReplayLog(requestObj, now, reply) ==
    [ testName |-> <<"r","e","p","l","a","y">>, startedAt |-> now, request |-> requestObj,
      finishedAt |-> now + 1, response |-> reply ]

\* the requests the results pane offers for replay: those of the logged entries
Replayable == {results[k].request : k \in 1..Len(results)}

\* the Replay button of a logged entry: handleReplay(requestObj) up to its
\* await; the request is sent and nothing is logged yet
HandleReplay(requestObj) ==
    /\ clicks < MaxClicks
    /\ requestObj \in Replayable
    /\ replays' = replays \cup {[request |-> requestObj, click |-> clicks + 1]}
    /\ clicks' = clicks + 1
    /\ UNCHANGED <<queue, results, suites, calls, clock, failures>>

\* the transport settles a replayed request: handleReplay logs one finished
\* entry named 'replay' (the reply, or { error } from its catch) and returns
ReplaySettles(r, reply) ==
    /\ r \in replays
    /\ IF reply = ErrorReply
       THEN failures < MaxFailures /\ failures' = failures + 1
       ELSE UNCHANGED failures
    /\ results' = PrependLog(ReplayLog(r.request, clock, reply), results)
    /\ replays' = replays \ {r}
    /\ clock' = clock + 2
    /\ UNCHANGED <<queue, suites, calls, clicks>>

\* the batches the generate-tests service hands to addGeneratedTests
BatchOne ==
    << QueuedTest(1, <<"n","1">>, FALSE, <<"a","u","t","o">>), QueuedTest(2, <<"u","1">>, TRUE, <<"a","u","t","o">>),
       QueuedTest(3, <<"m","1">>, TRUE, <<"m","a","n","u","a","l">>) >>
BatchTwo ==
    << QueuedTest(4, <<"u","2">>, TRUE, <<"a","u","t","o">>) >>
BatchTwice ==
    << QueuedTest(5, <<"x">>, FALSE, <<"m","a","n","u","a","l">>), QueuedTest(6, <<"x">>, FALSE, <<"m","a","n","u","a","l">>) >>
Batches == {BatchOne, BatchTwo, BatchTwice}

InitRun ==
    /\ queue = <<>>
    /\ results = <<>>
    /\ suites = <<>>
    /\ calls = {}
    /\ replays = {}
    /\ clock = 1
    /\ clicks = 0
    /\ failures = 0

RunIdle == InitRun

-----------------------------------------------------------------------------
(* The structure evaluator *)

\* config.structure
validMethods == << <<"G","E","T">>, <<"P","O","S","T">>, <<"P","U","T">>, <<"P","A","T","C","H">>, <<"D","E","L","E","T","E">> >>
validPriorities == << <<"h","i","g","h">>, <<"m","e","d","i","u","m">>, <<"l","o","w">> >>
validRunModes == << <<"a","u","t","o">>, <<"m","a","n","u","a","l">> >>

HexDigits == { <<"0","1","2","3","4","5","6","7","8","9","a","b","c","d","e","f">>[k] : k \in 1..16 }

\* /^[0-9a-f]{8}-[0-9a-f]{4}-[0-9a-f]{4}-[0-9a-f]{4}-[0-9a-f]{12}$/i
uuidRegex(str) ==
    /\ Len(str) = 36
    /\ \A k \in 1..36 :
          IF k \in {9, 14, 19, 24} THEN str[k] = "-" ELSE LowerChar(str[k]) \in HexDigits

\* list.includes(v) for a list of strings
ListIncludes(list, v) == v.t = "string" /\ IndexOf(list, v.s) # 0

\* String.prototype.startsWith
StartsWith(str, prefix) ==
    Len(str) >= Len(prefix) /\ SubSeq(str, 1, Len(prefix)) = prefix

\* a test object: every field a value; tags a list of values when it is an array
TestObject(id, name, req, tags, priority, runMode, userRequested) ==
    [ id |-> id, name |-> name, request |-> req, tags |-> tags,
      priority |-> priority, run_mode |-> runMode, user_requested |-> userRequested ]

\* !v || typeof v !== 'string'
NotNonEmptyString(v) == ~Truthy(v) \/ TypeOf(v) # "string"

\* if (!test.request.path || typeof test.request.path !== 'string' || ...length < 1)
PathErrors(req) ==
    IF NotNonEmptyString(Prop(req, <<"p","a","t","h">>)) \/ Len(Prop(req, <<"p","a","t","h">>).s) < 1
    THEN << <<"r","e","q","u","e","s","t",".","p","a","t","h",":"," ","m","u","s","t"," ","b","e"," ","a"," ","n","o","n","-","e","m","p","t","y"," ","s","t","r","i","n","g">> >> ELSE <<>>

\* the request branch of validateTest
RequestErrors(req) ==
    IF ~Truthy(req) \/ TypeOf(req) # "object"
    THEN << <<"r","e","q","u","e","s","t",":"," ","m","u","s","t"," ","b","e"," ","a","n"," ","o","b","j","e","c","t">> >>
    ELSE (IF ~ListIncludes(validMethods, Prop(req, <<"m","e","t","h","o","d">>))
          THEN << <<"r","e","q","u","e","s","t",".","m","e","t","h","o","d",":"," ","m","u","s","t"," ","b","e"," ","o","n","e"," ","o","f"," ">> \o JoinComma(validMethods) >>
          ELSE <<>>)
         \o PathErrors(req)
         \o (IF Prop(req, <<"h","e","a","d","e","r","s">>).t # "undefined" /\ TypeOf(Prop(req, <<"h","e","a","d","e","r","s">>)) # "object"
             THEN << <<"r","e","q","u","e","s","t",".","h","e","a","d","e","r","s",":"," ","m","u","s","t"," ","b","e"," ","a","n"," ","o","b","j","e","c","t"," ","i","f"," ","p","r","o","v","i","d","e","d">> >>
             ELSE <<>>)

\* if (!config.structure.validPriorities.includes(test.priority))
PriorityErrors(priority) ==
    IF ~ListIncludes(validPriorities, priority)
    THEN << <<"p","r","i","o","r","i","t","y",":"," ","m","u","s","t"," ","b","e"," ","o","n","e"," ","o","f"," ">> \o JoinComma(validPriorities) >>
    ELSE <<>>

\* validateTest(test)
validateTest(test) ==
    LET errors ==
            (IF NotNonEmptyString(test.id)
             THEN << <<"i","d",":"," ","m","u","s","t"," ","b","e"," ","a"," ","n","o","n","-","e","m","p","t","y"," ","s","t","r","i","n","g">> >>
             ELSE IF ~uuidRegex(test.id.s) THEN << <<"i","d",":"," ","m","u","s","t"," ","b","e"," ","a"," ","v","a","l","i","d"," ","U","U","I","D">> >> ELSE <<>>)
            \o (IF NotNonEmptyString(test.name) \/ Len(test.name.s) < 1
                THEN << <<"n","a","m","e",":"," ","m","u","s","t"," ","b","e"," ","a"," ","n","o","n","-","e","m","p","t","y"," ","s","t","r","i","n","g">> >> ELSE <<>>)
            \o RequestErrors(test.request)
            \o (IF test.tags.t # "array" THEN << <<"t","a","g","s",":"," ","m","u","s","t"," ","b","e"," ","a","n"," ","a","r","r","a","y">> >>
                ELSE IF \E k \in 1..Len(test.tags.items) : TypeOf(test.tags.items[k]) # "string"
                     THEN << <<"t","a","g","s",":"," ","a","l","l"," ","e","l","e","m","e","n","t","s"," ","m","u","s","t"," ","b","e"," ","s","t","r","i","n","g","s">> >>
                     ELSE <<>>)
            \o PriorityErrors(test.priority)
            \o (IF ~ListIncludes(validRunModes, test.run_mode)
                THEN << <<"r","u","n","_","m","o","d","e",":"," ","m","u","s","t"," ","b","e"," ","o","n","e"," ","o","f"," ">> \o JoinComma(validRunModes) >>
                ELSE <<>>)
            \o (IF test.user_requested.t # "undefined" /\ TypeOf(test.user_requested) # "boolean"
                THEN << <<"u","s","e","r","_","r","e","q","u","e","s","t","e","d",":"," ","m","u","s","t"," ","b","e"," ","a"," ","b","o","o","l","e","a","n"," ","i","f"," ","p","r","o","v","i","d","e","d">> >>
                ELSE <<>>)
    IN  [valid |-> Len(errors) = 0, errors |-> errors]

\* seqs.flat(): the sequences joined in order
RECURSIVE Flat(_)
Flat(seqs) == IF seqs = <<>> THEN <<>> ELSE Head(seqs) \o Flat(Tail(seqs))

\* `Test ${t.index}: ${e}` with the index one too high
PrefixedOneBased(index, e) == <<"T","e","s","t"," ">> \o NumberToString(index + 1) \o <<":"," ">> \o e

\* `Test ${t.index}: ${e}`
Prefixed(index, e) == <<"T","e","s","t"," ">> \o NumberToString(index) \o <<":"," ">> \o e

\* validateTests(tests); index counts from 0
validateTests(ts) ==
    LET res == [k \in 1..Len(ts) |->
                   [index |-> k - 1, valid |-> validateTest(ts[k]).valid,
                    errors |-> validateTest(ts[k]).errors]]
        invalidTests == SelectSeq(res, LAMBDA r : ~r.valid)
    IN  [ valid |-> Len(invalidTests) = 0,
          errors |-> Flat([k \in 1..Len(invalidTests) |->
                             [j \in 1..Len(invalidTests[k].errors) |->
                                 Prefixed(invalidTests[k].index, invalidTests[k].errors[j])]]),
          validCount |-> Len(SelectSeq(res, LAMBDA r : r.valid)),
          invalidCount |-> Len(invalidTests) ]

\* str.padStart(n, '0')
RECURSIVE PadStart(_, _)
PadStart(str, n) == IF Len(str) >= n THEN str ELSE PadStart(<<"0">> \o str, n)

\* the text of the id uuidv4() returns: the canonical form of a version 4
\* UUID, its random digits those of the draw
UuidString(id) ==
    PadStart(NumberToString(id[1]), 8) \o <<"-","0","0","0","0","-","4","0","0","0","-","8","0","0","0","-">>
    \o PadStart(NumberToString(id[2]), 12)

\* the object generateMockTest returns, as the evaluators read it: the
\* request's headers and body by content
TestValue(test, h) ==
    TestObject(Str(UuidString(test.id)), Str(test.name),
               Obj(<< Entry(<<"m","e","t","h","o","d">>, test.request.method),
                      Entry(<<"p","a","t","h">>, test.request.path),
                      Entry(<<"h","e","a","d","e","r","s">>, Obj(h[test.request.headers])),
                      Entry(<<"b","o","d","y">>, Obj(h[test.request.body])) >>),
               Tags([k \in 1..Len(test.tags) |-> Str(test.tags[k])]),
               Str(test.priority), Str(test.run_mode), Bool(test.user_requested))

\* the batch getMockResponse returned, as the evaluators read it
BatchValue(ts, h) == [k \in 1..Len(ts) |-> TestValue(ts[k], h)]

\* validateTest is called
ValidateTestCall(test) ==
    /\ evalFn = "none"
    /\ evalFn' = "validateTest"
    /\ evalArgs' = test
    /\ evalResult' = validateTest(test)

\* validateTests is called
ValidateTestsCall(ts) ==
    /\ evalFn = "none"
    /\ evalFn' = "validateTests"
    /\ evalArgs' = ts
    /\ evalResult' = validateTests(ts)

\* the test objects of the model: a well-formed test and tests that differ
\* from it in one field
GoodId == Str(<<"1","2","3","e","4","5","6","7","-","e","8","9","b","-","4","2","d","3","-","A","4","5","6","-","4","2","6","6","1","4","1","7","4","0","0","0">>)
GoodRequest(path) ==
    Obj(<< Entry(<<"m","e","t","h","o","d">>, Str(<<"P","O","S","T">>)), Entry(<<"p","a","t","h">>, path),
           Entry(<<"b","o","d","y">>, Obj(<<Entry(<<"a","m","o","u","n","t">>, Num(<<"0">>))>>)) >>)
GoodTags == Tags(<< Str(<<"b","o","u","n","d","a","r","y">>), Str(<<"e","d","g","e","-","c","a","s","e">>) >>)
GoodTest ==
    TestObject(GoodId, Str(<<"Z","e","r","o"," ","a","m","o","u","n","t">>), GoodRequest(Str(<<"/","o","r","d","e","r","s">>)), GoodTags,
               Str(<<"h","i","g","h">>), Str(<<"a","u","t","o">>), Bool(TRUE))

ValIds == { GoodId, Str(<<"a","b","c">>), Str(<<>>), Undefined, Num(<<"7">>) }
ValNames == { Str(<<"Z","e","r","o"," ","a","m","o","u","n","t">>), Str(<<>>), Undefined }
ValRequests ==
    { GoodRequest(p) : p \in {Str(<<"/","o","r","d","e","r","s">>), Str(<<"o","r","d","e","r","s">>), Str(<<>>), Undefined, Num(<<"7">>)} }
    \cup { Undefined, Null, Str(<<"/","o","r","d","e","r","s">>),
           Obj(<< Entry(<<"m","e","t","h","o","d">>, Str(<<"g","e","t">>)), Entry(<<"p","a","t","h">>, Str(<<"/","a">>)) >>),
           Obj(<< Entry(<<"m","e","t","h","o","d">>, Str(<<"G","E","T">>)), Entry(<<"p","a","t","h">>, Str(<<"/","a">>)),
                  Entry(<<"h","e","a","d","e","r","s">>, Str(<<"x">>)) >>),
           Obj(<< Entry(<<"m","e","t","h","o","d">>, Str(<<"G","E","T">>)), Entry(<<"p","a","t","h">>, Str(<<"/","a">>)),
                  Entry(<<"h","e","a","d","e","r","s">>, Null) >>) }
ValTags == { GoodTags, Tags(<<>>), Tags(<< Str(<<"a">>), Num(<<"1">>) >>), NoTags }
ValPriorities == { Str(<<"h","i","g","h">>), Str(<<"l","o","w">>), Str(<<"u","r","g","e","n","t">>), Undefined }
ValRunModes == { Str(<<"a","u","t","o">>), Str(<<"m","a","n","u","a","l">>), Str(<<"n","e","v","e","r">>), Undefined }
ValFlags == { Bool(TRUE), Bool(FALSE), Undefined, Str(<<"t","r","u","e">>) }

\* the tests that differ from GoodTest in at most one field
ValTests ==
    { [GoodTest EXCEPT !.id = v] : v \in ValIds }
    \cup { [GoodTest EXCEPT !.name = v] : v \in ValNames }
    \cup { [GoodTest EXCEPT !.request = v] : v \in ValRequests }
    \cup { [GoodTest EXCEPT !.tags = v] : v \in ValTags }
    \cup { [GoodTest EXCEPT !.priority = v] : v \in ValPriorities }
    \cup { [GoodTest EXCEPT !.run_mode = v] : v \in ValRunModes }
    \cup { [GoodTest EXCEPT !.user_requested = v] : v \in ValFlags }

\* the tests with any mix of the fields
ValMixedTests ==
    { TestObject(id, GoodTest.name, req, tg, pr, GoodTest.run_mode, GoodTest.user_requested) :
        id \in ValIds, req \in ValRequests, tg \in ValTags, pr \in ValPriorities }

\* the batches of at most MaxBatch tests
ValBatches == UNION { [1..n -> ValTests] : n \in 0..MaxBatch }

InitEval ==
    /\ evalFn = "none"
    /\ evalArgs = <<>>
    /\ evalResult = <<>>

EvalIdle == InitEval

-----------------------------------------------------------------------------
(* The coverage evaluator *)

\* config.coverage
minBoundaryTests == 2
minTypeVariationTests == 2
minEmptyValueTests == 2
minInjectionTests == 2
minMissingFieldTests == 1
\* required: 1 of extraFields
minExtraFieldTests == 1

\* JSON.stringify of an array of values
RECURSIVE JsonItems(_)
JsonItems(items) ==
    IF items = <<>> THEN <<>>
    ELSE JsonValue(Head(items))
         \o (IF Tail(items) = <<>> THEN <<>> ELSE <<",">> \o JsonItems(Tail(items)))

\* JSON.stringify(test): the fields in the order the test object lists them
JsonTest(test) ==
    JsonStringify(<< Entry(<<"i","d">>, test.id), Entry(<<"n","a","m","e">>, test.name),
                     Entry(<<"r","e","q","u","e","s","t">>, test.request),
                     Entry(<<"t","a","g","s">>, IF test.tags.t = "array"
                                    THEN Arr(<<"[">> \o JsonItems(test.tags.items) \o <<"]">>,
                                             Len(test.tags.items))
                                    ELSE Undefined),
                     Entry(<<"p","r","i","o","r","i","t","y">>, test.priority),
                     Entry(<<"r","u","n","_","m","o","d","e">>, test.run_mode),
                     Entry(<<"u","s","e","r","_","r","e","q","u","e","s","t","e","d">>, test.user_requested) >>)

\* test.tags.map((t) => t.toLowerCase())
LowerTags(test) == [k \in 1..Len(test.tags.items) |-> ToLowerCase(test.tags.items[k].s)]

\* text.includes(w1) || text.includes(w2) || ...
IncludesAny(text, words) == \E w \in words : Includes(text, w)

\* tags.some((t) => t.includes(w1) || t.includes(w2) || ...)
SomeTagIncludes(tags, words) == \E k \in 1..Len(tags) : IncludesAny(tags[k], words)

InjectionWords == { <<"i","n","j","e","c","t","i","o","n">>, <<"s","q","l">>, <<"x","s","s">>, <<"c","o","m","m","a","n","d">>, <<"s","c","r","i","p","t">> }
InjectionTags == { <<"s","e","c","u","r","i","t","y">>, <<"i","n","j","e","c","t","i","o","n">> }

\* the six conditions of the loop of analyzeCoverage, in the order of the report
IsEmptyValueTest(test) ==
    \/ IncludesAny(ToLowerCase(JsonTest(test)),
                   { <<"e","m","p","t","y">>, <<"n","u","l","l">>, <<"u","n","d","e","f","i","n","e","d">>, <<"\"","\"">>, <<"[","]">>, <<"{","}">> })
    \/ SomeTagIncludes(LowerTags(test), { <<"e","m","p","t","y">>, <<"n","u","l","l">> })

IsBoundaryTest(test) ==
    \/ IncludesAny(ToLowerCase(test.name.s),
                   { <<"z","e","r","o">>, <<"0">>, <<"n","e","g","a","t","i","v","e">>, <<"-","1">>, <<"m","a","x">>, <<"m","i","n">>, <<"b","o","u","n","d","a","r","y">>, <<"l","i","m","i","t">> })
    \/ SomeTagIncludes(LowerTags(test), { <<"b","o","u","n","d","a","r","y">>, <<"e","d","g","e">> })

IsTypeVariationTest(test) ==
    \/ IncludesAny(ToLowerCase(test.name.s),
                   { <<"t","y","p","e">>, <<"s","t","r","i","n","g">>, <<"n","u","m","b","e","r">>, <<"b","o","o","l","e","a","n">>, <<"a","r","r","a","y">>, <<"o","b","j","e","c","t">> })
    \/ SomeTagIncludes(LowerTags(test), { <<"t","y","p","e">> })

IsInjectionTest(test) ==
    \/ IncludesAny(ToLowerCase(test.name.s), InjectionWords)
    \/ SomeTagIncludes(LowerTags(test), InjectionTags)

IsMissingFieldTest(test) ==
    \/ IncludesAny(ToLowerCase(test.name.s), { <<"m","i","s","s","i","n","g">>, <<"o","m","i","t">>, <<"w","i","t","h","o","u","t">>, <<"a","b","s","e","n","t">> })
    \/ SomeTagIncludes(LowerTags(test), { <<"m","i","s","s","i","n","g">>, <<"r","e","q","u","i","r","e","d">> })

IsExtraFieldTest(test) ==
    \/ IncludesAny(ToLowerCase(test.name.s),
                   { <<"e","x","t","r","a">>, <<"a","d","d","i","t","i","o","n","a","l">>, <<"u","n","k","n","o","w","n">>, <<"u","n","e","x","p","e","c","t","e","d">> })
    \/ SomeTagIncludes(LowerTags(test), { <<"e","x","t","r","a">> })

\* one category of the report: { found, count, required } under its key
Category(key, found, required) ==
    [category |-> key, found |-> found, count |-> Len(found), required |-> required]

\* found.push(test.name) for the tests that satisfy a condition, in order
FoundNames(hits) == [k \in 1..Len(hits) |-> hits[k].name.s]

\* analyzeCoverage(tests): the categories in the order of the keys of coverage
analyzeCoverage(ts) ==
    << Category(<<"e","m","p","t","y","V","a","l","u","e","s">>, FoundNames(SelectSeq(ts, IsEmptyValueTest)), minEmptyValueTests),
       Category(<<"b","o","u","n","d","a","r","y","N","u","m","b","e","r","s">>, FoundNames(SelectSeq(ts, IsBoundaryTest)), minBoundaryTests),
       Category(<<"t","y","p","e","V","a","r","i","a","t","i","o","n","s">>, FoundNames(SelectSeq(ts, IsTypeVariationTest)), minTypeVariationTests),
       Category(<<"i","n","j","e","c","t","i","o","n","T","e","s","t","s">>, FoundNames(SelectSeq(ts, IsInjectionTest)), minInjectionTests),
       Category(<<"m","i","s","s","i","n","g","F","i","e","l","d","s">>, FoundNames(SelectSeq(ts, IsMissingFieldTest)), minMissingFieldTests),
       Category(<<"e","x","t","r","a","F","i","e","l","d","s">>, FoundNames(SelectSeq(ts, IsExtraFieldTest)), minExtraFieldTests) >>

\* cat.count > cat.required
MeetsRequiredStrictly(cat) == cat.count > cat.required

\* cat.count >= cat.required
MeetsRequired(cat) == cat.count >= cat.required

\* `${category}: found ${cat.count}, required ${cat.required}`
Gap(cat) ==
    cat.category \o <<":"," ","f","o","u","n","d"," ">> \o NumberToString(cat.count)
    \o <<","," ","r","e","q","u","i","r","e","d"," ">> \o NumberToString(cat.required)

\* calculateCoverageScore(coverage); score is the fraction num / den
calculateCoverageScore(coverage) ==
    LET passing == SelectSeq(coverage, MeetsRequired)
        failing == SelectSeq(coverage, LAMBDA cat : ~MeetsRequired(cat))
    IN  [ score |-> [num |-> Len(passing) * 100, den |-> Len(coverage)],
          passed |-> Len(passing),
          total |-> Len(coverage),
          gaps |-> [k \in 1..Len(failing) |-> Gap(failing[k])] ]

\* analyzeCoverage is called
AnalyzeCoverageCall(ts) ==
    /\ evalFn = "none"
    /\ evalFn' = "analyzeCoverage"
    /\ evalArgs' = ts
    /\ evalResult' = analyzeCoverage(ts)

\* calculateCoverageScore is called
CalculateCoverageScoreCall(coverage) ==
    /\ evalFn = "none"
    /\ evalFn' = "calculateCoverageScore"
    /\ evalArgs' = coverage
    /\ evalResult' = calculateCoverageScore(coverage)

\* the tests handed to analyzeCoverage
CovTest(name, tags, body) ==
    TestObject(GoodId, Str(name),
               Obj(<< Entry(<<"m","e","t","h","o","d">>, Str(<<"P","O","S","T">>)), Entry(<<"p","a","t","h">>, Str(<<"/","o","r","d","e","r","s">>)),
                      Entry(<<"b","o","d","y">>, body) >>),
               Tags(tags), Str(<<"h","i","g","h">>), Str(<<"a","u","t","o">>), Bool(FALSE))

CovTests ==
    { GoodTest,
      CovTest(<<"P","a","y","l","o","a","d"," ","i","n"," ","c","o","m","m","e","n","t">>, << Str(<<"p","a","y","l","o","a","d">>) >>,
              Obj(<<Entry(<<"c","o","m","m","e","n","t">>, Str(<<"<","s","c","r","i","p","t",">","a","l","e","r","t","(","1",")","<","/","s","c","r","i","p","t",">">>))>>)),
      CovTest(<<"S","Q","L"," ","I","n","j","e","c","t","i","o","n"," ","i","n"," ","n","a","m","e">>, << Str(<<"s","t","r","i","n","g","s">>) >>,
              Obj(<<Entry(<<"n","a","m","e">>, Str(<<"A","l">>))>>)),
      CovTest(<<"T","a","g","g","e","d"," ","o","n","l","y">>, << Str(<<"S","e","c","u","r","i","t","y">>) >>,
              Obj(<<Entry(<<"n","a","m","e">>, Str(<<"A","l">>))>>)),
      CovTest(<<"F","i","e","l","d"," ","l","e","f","t"," ","o","u","t">>, << Str(<<"r","e","q","u","i","r","e","d">>) >>, Obj(<<>>)),
      CovTest(<<"U","n","e","x","p","e","c","t","e","d"," ","e","x","t","r","a"," ","f","i","e","l","d">>, << Str(<<"e","x","t","r","a","-","f","i","e","l","d">>) >>,
              Obj(<<Entry(<<"u","n","e","x","p","e","c","t","e","d","F","i","e","l","d">>, Str(<<"u","n","e","x","p","e","c","t","e","d","_","v","a","l","u","e">>))>>)),
      CovTest(<<"P","l","a","i","n"," ","o","r","d","e","r">>, <<>>, Obj(<<Entry(<<"a","m","o","u","n","t">>, Num(<<"1","0","0">>))>>)) }

CovBatches == UNION { [1..n -> CovTests] : n \in 0..MaxBatch }

\* the reports handed to calculateCoverageScore: every count up to MaxFound
\* in each category
CovReports ==
    { << Category(<<"e","m","p","t","y","V","a","l","u","e","s">>, [k \in 1..e |-> <<"t">>], minEmptyValueTests),
         Category(<<"b","o","u","n","d","a","r","y","N","u","m","b","e","r","s">>, [k \in 1..b |-> <<"t">>], minBoundaryTests),
         Category(<<"t","y","p","e","V","a","r","i","a","t","i","o","n","s">>, [k \in 1..t |-> <<"t">>], minTypeVariationTests),
         Category(<<"i","n","j","e","c","t","i","o","n","T","e","s","t","s">>, [k \in 1..j |-> <<"t">>], minInjectionTests),
         Category(<<"m","i","s","s","i","n","g","F","i","e","l","d","s">>, [k \in 1..m |-> <<"t">>], minMissingFieldTests),
         Category(<<"e","x","t","r","a","F","i","e","l","d","s">>, [k \in 1..x |-> <<"t">>], minExtraFieldTests) >> :
        e \in 0..MaxFound, b \in 0..MaxFound, t \in 0..MaxFound,
        j \in 0..MaxFound, m \in 0..MaxFound, x \in 0..MaxFound }

\* the test pushed for an index by the loop of getMockResponse, as the
\* evaluators read it: its value depends only on the objects it refers to,
\* which no later push changes
MockTestAt(h, ptr, cfg, index, e) ==
    LET r == generateMockTest(h, ptr, cfg, index, UserRequestedAt(index), uuidv4(e, index))
    IN  TestValue(r.test, r.heap)

\* getMockResponse(pointer, requestConfig, count).tests
MockResponseTests(h, ptr, cfg, cnt, e) ==
    [k \in 1..cnt |-> MockTestAt(h, ptr, cfg, k - 1, e)]

\* analyzeCoverage(tests) and calculateCoverageScore(coverage) of the coverage evals
CoverageOf(ts, coverage) ==
    [tests |-> ts, coverage |-> coverage, report |-> calculateCoverageScore(coverage)]

\* a coverage eval runs: the batch is generated, analysed and scored
CoverageEvalCall(ptr, inp, cnt) ==
    /\ evalFn = "none"
    /\ evalFn' = "coverageEval"
    /\ evalArgs' = <<ptr, inp, cnt>>
    /\ evalResult' =
          LET ts == MockResponseTests(inp.heap, ptr, inp.cfg, cnt, 1)
          IN  CoverageOf(ts, analyzeCoverage(ts))

-----------------------------------------------------------------------------
(* The intent evaluator *)

\* config.intent
userRequestedCount == 3
minKeywordMatchScore == [num |-> 1, den |-> 2]

stopWords ==
    { <<"a">>, <<"a","n">>, <<"t","h","e">>, <<"i","s">>, <<"a","r","e">>, <<"w","a","s">>, <<"w","e","r","e">>, <<"b","e">>, <<"b","e","e","n">>, <<"b","e","i","n","g">>,
      <<"h","a","v","e">>, <<"h","a","s">>, <<"h","a","d">>, <<"d","o">>, <<"d","o","e","s">>, <<"d","i","d">>, <<"w","i","l","l">>, <<"w","o","u","l","d">>, <<"c","o","u","l","d">>,
      <<"s","h","o","u","l","d">>, <<"m","a","y">>, <<"m","i","g","h","t">>, <<"m","u","s","t">>, <<"s","h","a","l","l">>, <<"c","a","n">>, <<"n","e","e","d">>, <<"t","o">>, <<"o","f">>,
      <<"i","n">>, <<"f","o","r">>, <<"o","n">>, <<"w","i","t","h">>, <<"a","t">>, <<"b","y">>, <<"f","r","o","m">>, <<"a","s">>, <<"i","n","t","o">>, <<"t","h","r","o","u","g","h">>,
      <<"d","u","r","i","n","g">>, <<"b","e","f","o","r","e">>, <<"a","f","t","e","r">>, <<"a","b","o","v","e">>, <<"b","e","l","o","w">>, <<"b","e","t","w","e","e","n">>, <<"u","n","d","e","r">>,
      <<"a","g","a","i","n">>, <<"f","u","r","t","h","e","r">>, <<"t","h","e","n">>, <<"o","n","c","e">>, <<"h","e","r","e">>, <<"t","h","e","r","e">>, <<"w","h","e","n">>, <<"w","h","e","r","e">>,
      <<"w","h","y">>, <<"h","o","w">>, <<"a","l","l">>, <<"e","a","c","h">>, <<"f","e","w">>, <<"m","o","r","e">>, <<"m","o","s","t">>, <<"o","t","h","e","r">>, <<"s","o","m","e">>,
      <<"s","u","c","h">>, <<"n","o">>, <<"n","o","r">>, <<"n","o","t">>, <<"o","n","l","y">>, <<"o","w","n">>, <<"s","a","m","e">>, <<"s","o">>, <<"t","h","a","n">>, <<"t","o","o">>,
      <<"v","e","r","y">>, <<"j","u","s","t">>, <<"a","n","d">>, <<"b","u","t">>, <<"i","f">>, <<"o","r">>, <<"b","e","c","a","u","s","e">>, <<"u","n","t","i","l">>, <<"w","h","i","l","e">>,
      <<"e","n","s","u","r","e">>, <<"t","e","s","t">>, <<"t","e","s","t","s">>, <<"t","e","s","t","i","n","g">>, <<"c","h","e","c","k">>, <<"v","e","r","i","f","y">>, <<"m","a","k","e">>, <<"s","u","r","e">>,
      <<"t","h","a","t">>, <<"w","h","a","t">>, <<"t","h","i","s">>, <<"i","t">>, <<"i","t","s">> }

\* the characters /[^a-z0-9\s-]/g leaves in place
KeptChars ==
    {LowerCase[k] : k \in 1..Len(LowerCase)} \cup {Digits[k] : k \in 1..Len(Digits)}
    \cup WhiteSpace \cup {"-"}

\* .replace(/[^a-z0-9\s-]/g, ' ')
ReplaceOthers(str) == [k \in 1..Len(str) |-> IF str[k] \in KeptChars THEN str[k] ELSE " "]

\* .split(/\s+/): the pieces between runs of white space, the empty piece
\* before a leading run and after a trailing run included
RECURSIVE SplitWhiteSpace(_)
SplitWhiteSpace(str) ==
    IF \A k \in 1..Len(str) : str[k] \notin WhiteSpace THEN <<str>>
    ELSE LET p == CHOOSE k \in 1..Len(str) :
                     /\ str[k] \in WhiteSpace
                     /\ \A j \in 1..(k - 1) : str[j] \notin WhiteSpace
             after == {k \in (p + 1)..Len(str) : str[k] \notin WhiteSpace}
             q == IF after = {} THEN Len(str) + 1
                  ELSE CHOOSE k \in after : \A j \in after : k <= j
         IN  <<SubSeq(str, 1, p - 1)>> \o SplitWhiteSpace(SubSeq(str, q, Len(str)))

\* word.length > 0 && !stopWords.has(word)
IsKeywordLoose(word) == Len(word) > 0 /\ word \notin stopWords

\* word.length > 1 && !stopWords.has(word)
IsKeyword(word) == Len(word) > 1 /\ word \notin stopWords

\* extractKeywords(userPointer)
extractKeywords(userPointer) ==
    IF ~Truthy(userPointer) \/ TypeOf(userPointer) # "string" THEN <<>>
    ELSE SetOrder(SelectSeq(SplitWhiteSpace(ReplaceOthers(ToLowerCase(userPointer.s))),
                            IsKeyword))

\* a number kept as the fraction num / den; den = 0 is NaN
Frac(num, den) == [num |-> num, den |-> den]
AddFrac(a, b) == Frac(a.num * b.den + b.num * a.den, a.den * b.den)

\* a >= b, false when either is NaN
AtLeast(a, b) == a.den > 0 /\ b.den > 0 /\ a.num * b.den >= b.num * a.den

\* [a, b, ...].join(' ')
RECURSIVE JoinSpace(_)
JoinSpace(seq) ==
    IF seq = <<>> THEN <<>>
    ELSE IF Len(seq) = 1 THEN seq[1]
    ELSE seq[1] \o <<" ">> \o JoinSpace(Tail(seq))

\* [test.name, ...(test.tags || []), JSON.stringify(test.request.body || {})]
\*     .join(' ').toLowerCase()
TestText(test) ==
    LET tags == IF test.tags.t = "array"
                THEN [k \in 1..Len(test.tags.items) |-> test.tags.items[k].s]
                ELSE <<>>
        body == IF Truthy(Prop(test.request, <<"b","o","d","y">>))
                THEN Prop(test.request, <<"b","o","d","y">>) ELSE Obj(<<>>)
    IN  ToLowerCase(JoinSpace(<<test.name.s>> \o tags \o <<JsonValue(body)>>))

\* (kw) => true
KeywordUnmatchedAlways(testText, kw) == TRUE

\* (kw) => !testText.includes(kw)
KeywordUnmatched(testText, kw) == ~Includes(testText, kw)

\* calculateKeywordMatch(keywords, test)
calculateKeywordMatch(keywords, test) ==
    IF Len(keywords) = 0
    THEN [score |-> Frac(1, 1), matchedKeywords |-> <<>>, unmatchedKeywords |-> <<>>]
    ELSE LET testText == TestText(test)
             matchedKeywords == SelectSeq(keywords, LAMBDA kw : Includes(testText, kw))
             unmatchedKeywords ==
                 SelectSeq(keywords, LAMBDA kw : KeywordUnmatched(testText, kw))
         IN  [ score |-> Frac(Len(matchedKeywords), Len(keywords)),
               matchedKeywords |-> matchedKeywords,
               unmatchedKeywords |-> unmatchedKeywords ]

\* tests.slice(0, n) and tests.slice(n)
SliceTo(ts, n) == SubSeq(ts, 1, IF n < Len(ts) THEN n ELSE Len(ts))
SliceFrom(ts, n) == SubSeq(ts, n + 1, Len(ts))

\* `Test ${r.index} "${r.name}" missing user_requested flag`
MissingFlag(index, name) ==
    <<"T","e","s","t"," ">> \o NumberToString(index) \o <<" ","\"">> \o name
    \o <<"\""," ","m","i","s","s","i","n","g"," ","u","s","e","r","_","r","e","q","u","e","s","t","e","d"," ","f","l","a","g">>

\* checkUserRequestedFlags(tests, expectedCount)
checkUserRequestedFlags(ts, expectedCount) ==
    LET userRequestedTests == SliceTo(ts, expectedCount)
        hasFlag(k) == userRequestedTests[k].user_requested = Bool(TRUE)
        flagged == {k \in 1..Len(userRequestedTests) : hasFlag(k)}
        RECURSIVE Details(_)
        Details(k) ==
            IF k > Len(userRequestedTests) THEN <<>>
            ELSE (IF hasFlag(k) THEN <<>>
                  ELSE <<MissingFlag(k - 1, userRequestedTests[k].name.s)>>)
                 \o Details(k + 1)
    IN  [ valid |-> Cardinality(flagged) = expectedCount,
          actual |-> Cardinality(flagged),
          expected |-> expectedCount,
          details |-> Details(1) ]

\* matches.reduce((sum, m) => sum + m.score, 0)
RECURSIVE SumScores(_)
SumScores(matches) ==
    IF matches = <<>> THEN Frac(0, 1)
    ELSE AddFrac(SumScores(SubSeq(matches, 1, Len(matches) - 1)),
                 matches[Len(matches)].score)

\* sum / matches.length: 0 / 0 is NaN
AverageScore(matches) ==
    LET sum == SumScores(matches) IN Frac(sum.num, sum.den * Len(matches))

\* evaluateIntentAlignment(userPointer, tests)
evaluateIntentAlignment(userPointer, ts) ==
    LET keywords == extractKeywords(userPointer)
        firstTests == SliceTo(ts, userRequestedCount)
        keywordMatches ==
            [k \in 1..Len(firstTests) |-> calculateKeywordMatch(keywords, firstTests[k])]
        avgAlignmentScore == AverageScore(keywordMatches)
        flagCheck == checkUserRequestedFlags(ts, userRequestedCount)
        remainingTests == SliceFrom(ts, userRequestedCount)
        remainingKeywordMatches ==
            [k \in 1..Len(remainingTests) |->
                calculateKeywordMatch(keywords, remainingTests[k])]
        avgRemainingScore ==
            IF Len(remainingKeywordMatches) > 0 THEN AverageScore(remainingKeywordMatches)
            ELSE Frac(0, 1)
    IN  [ keywords |-> keywords,
          userRequestedTests |->
              [ count |-> userRequestedCount,
                alignmentScore |-> avgAlignmentScore,
                meetsThreshold |-> AtLeast(avgAlignmentScore, minKeywordMatchScore),
                details |-> keywordMatches ],
          flagCheck |-> flagCheck,
          exploratoryTests |->
              [ valid |-> TRUE, score |-> avgRemainingScore,
                testsCount |-> Len(remainingTests) ],
          overallValid |->
              flagCheck.valid /\ AtLeast(avgAlignmentScore, minKeywordMatchScore) ]

\* extractKeywords is called
ExtractKeywordsCall(userPointer) ==
    /\ evalFn = "none"
    /\ evalFn' = "extractKeywords"
    /\ evalArgs' = userPointer
    /\ evalResult' = extractKeywords(userPointer)

\* calculateKeywordMatch is called
CalculateKeywordMatchCall(keywords, test) ==
    /\ evalFn = "none"
    /\ evalFn' = "calculateKeywordMatch"
    /\ evalArgs' = <<keywords, test>>
    /\ evalResult' = calculateKeywordMatch(keywords, test)

\* evaluateIntentAlignment is called
EvaluateIntentAlignmentCall(userPointer, ts) ==
    /\ evalFn = "none"
    /\ evalFn' = "evaluateIntentAlignment"
    /\ evalArgs' = <<userPointer, ts>>
    /\ evalResult' = evaluateIntentAlignment(userPointer, ts)

\* the pointers handed to extractKeywords
IntentPointers ==
    { Undefined, Null, Str(<<>>), Num(<<"5">>), Obj(<<>>),
      Str(<<"E","n","s","u","r","e"," ","t","h","e"," ","a","m","o","u","n","t"," ","i","s"," ","z","e","r","o">>),
      Str(<<"T","e","s","t"," ","Z","E","R","O","-","a","m","o","u","n","t",","," ","z","e","r","o"," ","a","m","o","u","n","t"," ","&"," ","Z","e","r","o","-","A","m","o","u","n","t","!">>),
      Str(<<" "," ","v","e","r","i","f","y"," ","i","t","	","i","s"," ","a"," ","t","e","s","t"," ">>),
      Str(<<"t","o"," ","b","e"," ","o","r"," ","n","o","t"," ","2"," ","b">>),
      Str(<<"W","h","e","n"," ","c","a","f","_","e"," ","o","r","d","e","r","s"," ","x","2"," ","-","-"," ","t","h","e","n"," ","4","0","0">>),
      Str(<<"W","h","a","t"," ","i","f"," ","t","h","e"," ","u","s","e","r","'","s"," ","e","m","a","i","l"," ","i","s"," ","m","i","s","s","i","n","g","?">>) }

\* the keyword lists handed to calculateKeywordMatch
IntentKeywords ==
    {extractKeywords(userPointer) : userPointer \in IntentPointers}
    \cup { << <<"Z","e","r","o">> >>, << <<"a","m","o","u","n","t">>, <<"a","m","o","u","n","t">>, <<"s","c","r","i","p","t">> >> }

\* the tests handed to calculateKeywordMatch
IntentTests ==
    CovTests
    \cup { TestObject(GoodId, Str(<<"Z","e","r","o"," ","A","M","O","U","N","T">>),
                      Obj(<< Entry(<<"m","e","t","h","o","d">>, Str(<<"P","O","S","T">>)),
                             Entry(<<"p","a","t","h">>, Str(<<"/","o","r","d","e","r","s">>)) >>),
                      NoTags, Str(<<"h","i","g","h">>), Str(<<"a","u","t","o">>), Bool(TRUE)) }

\* the suites handed to evaluateIntentAlignment: tests that match the
\* userPointer with and without the flag, and one that does not match
FlaggedTest(flag) ==
    TestObject(GoodId, Str(<<"Z","e","r","o"," ","a","m","o","u","n","t">>),
               Obj(<< Entry(<<"m","e","t","h","o","d">>, Str(<<"P","O","S","T">>)), Entry(<<"p","a","t","h">>, Str(<<"/","o","r","d","e","r","s">>)),
                      Entry(<<"b","o","d","y">>, Obj(<<Entry(<<"a","m","o","u","n","t">>, Num(<<"0">>))>>)) >>),
               Tags(<< Str(<<"b","o","u","n","d","a","r","y">>) >>), Str(<<"h","i","g","h">>), Str(<<"a","u","t","o">>), Bool(flag))

IntentSuites ==
    UNION { [1..n -> { FlaggedTest(TRUE), FlaggedTest(FALSE),
                       CovTest(<<"P","l","a","i","n"," ","o","r","d","e","r">>, <<>>, Obj(<<Entry(<<"t","o","t","a","l">>, Num(<<"1","0","0">>))>>)) }] :
            n \in 0..MaxSuite }

IntentSuitePointers == { Str(<<>>), Str(<<"E","n","s","u","r","e"," ","t","h","e"," ","a","m","o","u","n","t"," ","i","s"," ","z","e","r","o">>) }

-----------------------------------------------------------------------------
(* The golden suite comparison *)

\* a > b for two scores kept as fractions
GreaterFrac(a, b) == a.num * b.den > b.num * a.den

\* the loop of findBestMatch over the first k golden tests
RECURSIVE BestAmong(_, _, _)
BestAmong(gen, goldenTests, k) ==
    IF k = 0 THEN [bestMatch |-> Null, score |-> Frac(0, 1), comparison |-> Null]
    ELSE LET best == BestAmong(gen, goldenTests, k - 1)
             cmp == compareTest(gen, goldenTests[k])
         IN  IF GreaterFrac(cmp.score, best.score)
             THEN [bestMatch |-> goldenTests[k], score |-> cmp.score, comparison |-> cmp]
             ELSE best

\* findBestMatch(generated, goldenTests)
findBestMatch(gen, goldenTests) == BestAmong(gen, goldenTests, Len(goldenTests))

\* the pairing compareTestSuite pushes for a generated test and what
\* findBestMatch found for it
Pairing(generated_, found) ==
    [ generated |-> generated_.name,
      golden |-> found.bestMatch.name,
      score |-> found.score,
      matches |-> found.comparison.matches,
      mismatches |-> found.comparison.mismatches ]

\* the positions of the generated tests for which a pairing is pushed:
\* if (bestMatch) { ... }
PairedIndices(found) ==
    SelectSeq([k \in 1..Len(found) |-> k], LAMBDA k : found[k].bestMatch # Null)

\* matchedGoldenIndices.add(position of the generated test)
MatchedGeneratedIndices(goldenTests, found, paired) == {paired[j] : j \in 1..Len(paired)}

\* matchedGoldenIndices.add(goldenTests.indexOf(bestMatch)), for every pairing
MatchedGoldenIndices(goldenTests, found, paired) ==
    {IndexOf(goldenTests, found[paired[j]].bestMatch) : j \in 1..Len(paired)}

\* the results object of compareTestSuite, given what findBestMatch found
\* for each generated test
SuiteResults(generatedTests, goldenTests, found, paired) ==
    LET matches == [j \in 1..Len(paired) |->
                       Pairing(generatedTests[paired[j]], found[paired[j]])]
        matchedGoldenIndices == MatchedGoldenIndices(goldenTests, found, paired)
        missed == SelectSeq([k \in 1..Len(goldenTests) |-> k],
                            LAMBDA k : k \notin matchedGoldenIndices)
    IN  [ totalGenerated |-> Len(generatedTests),
          totalGolden |-> Len(goldenTests),
          matches |-> matches,
          averageScore |-> IF Len(matches) > 0 THEN AverageScore(matches) ELSE Frac(0, 1),
          coverageReport |->
              [ goldenCovered |-> Cardinality(matchedGoldenIndices),
                goldenMissed |-> [k \in 1..Len(missed) |-> goldenTests[missed[k]].name] ] ]

\* compareTestSuite(generatedTests, goldenTests)
compareTestSuite(generatedTests, goldenTests) ==
    LET found == [k \in 1..Len(generatedTests) |->
                     findBestMatch(generatedTests[k], goldenTests)]
    IN  SuiteResults(generatedTests, goldenTests, found, PairedIndices(found))

\* findBestMatch is called
FindBestMatchCall(gen, goldenTests) ==
    /\ evalFn = "none"
    /\ evalFn' = "findBestMatch"
    /\ evalArgs' = <<gen, goldenTests>>
    /\ evalResult' = findBestMatch(gen, goldenTests)

\* compareTestSuite is called
CompareTestSuiteCall(generatedTests, goldenTests) ==
    /\ evalFn = "none"
    /\ evalFn' = "compareTestSuite"
    /\ evalArgs' = <<generatedTests, goldenTests>>
    /\ evalResult' = compareTestSuite(generatedTests, goldenTests)

\* the tests of the suites: two that agree in every check, one that differs
\* from them in two checks and one that differs from them in all six
SuiteTest(name, method, path, priority, flag, tags, body) ==
    [ name |-> name,
      request |-> Obj(<< Entry(<<"m","e","t","h","o","d">>, Str(method)), Entry(<<"p","a","t","h">>, Str(path)),
                         Entry(<<"b","o","d","y">>, body) >>),
      tags |-> Tags(tags), priority |-> Str(priority), user_requested |-> Bool(flag) ]

SuiteTests ==
    { SuiteTest(<<"Z","e","r","o"," ","a","m","o","u","n","t">>, <<"P","O","S","T">>, <<"/","o","r","d","e","r","s">>, <<"h","i","g","h">>, TRUE,
                << <<"b","o","u","n","d","a","r","y">> >>, Obj(<<Entry(<<"a","m","o","u","n","t">>, Num(<<"0">>))>>)),
      SuiteTest(<<"A","m","o","u","n","t"," ","o","f"," ","z","e","r","o">>, <<"P","O","S","T">>, <<"/","o","r","d","e","r","s">>, <<"h","i","g","h">>, TRUE,
                << <<"b","o","u","n","d","a","r","y">>, <<"e","d","g","e","-","c","a","s","e">> >>, Obj(<<Entry(<<"a","m","o","u","n","t">>, Num(<<"0">>))>>)),
      SuiteTest(<<"N","e","g","a","t","i","v","e"," ","a","m","o","u","n","t">>, <<"P","O","S","T">>, <<"/","o","r","d","e","r","s">>, <<"h","i","g","h">>, FALSE,
                << <<"b","o","u","n","d","a","r","y">> >>,
                Obj(<<Entry(<<"a","m","o","u","n","t">>, Num(<<"-","1">>)), Entry(<<"c","u","r","r","e","n","c","y">>, Str(<<"U","S","D">>))>>)),
      SuiteTest(<<"U","s","e","r"," ","l","o","o","k","u","p">>, <<"G","E","T">>, <<"/","u","s","e","r","s">>, <<"l","o","w">>, FALSE,
                << <<"s","e","c","u","r","i","t","y">> >>, Obj(<<Entry(<<"e","m","a","i","l">>, Str(<<"a","@","b",".","c","o">>))>>)) }

GeneratedSuites == UNION { [1..n -> SuiteTests] : n \in 0..MaxBatch }
GoldenSuites == UNION { [1..n -> SuiteTests] : n \in 1..MaxGolden }

-----------------------------------------------------------------------------
(* The header normalization of model output *)

\* the headers normalizeTest and the generate-tests route give a test whose
\* request is req: a copy of req.headers, Content-Type set by the body's type
NormalizedHeaders(req) ==
    LET \* const headers = { ...(req.headers || {}) }
        headers == IF Truthy(req.headers) THEN req.headers.kv ELSE <<>>
        upper == Get(headers, <<"C","o","n","t","e","n","t","-","T","y","p","e">>)
        lower == Get(headers, <<"c","o","n","t","e","n","t","-","t","y","p","e">>)
        \* const ct = headers['Content-Type'] || headers['content-type']
        ct == IF Truthy(upper) THEN upper ELSE lower
    IN  IF TypeOf(req.body) = "string"
        THEN IF ~Truthy(ct) \/ Includes(ToLowerCase(StringOf(ct).s), <<"j","s","o","n">>)
             THEN Put(headers, <<"C","o","n","t","e","n","t","-","T","y","p","e">>, Str(<<"t","e","x","t","/","p","l","a","i","n">>))
             ELSE headers
        ELSE IF Truthy(req.body) /\ TypeOf(req.body) = "object"
             THEN IF ~Truthy(upper) /\ ~Truthy(lower)
                  THEN Put(headers, <<"C","o","n","t","e","n","t","-","T","y","p","e">>, Str(<<"a","p","p","l","i","c","a","t","i","o","n","/","j","s","o","n">>))
                  ELSE headers
             ELSE headers

\* normalizeTest(test): request: { ...req, headers }
normalizeTest(req) == [req EXCEPT !.headers = Obj(NormalizedHeaders(req))]

\* normalizeTest is called on a test of the model's response
NormalizeTestCall(req) ==
    /\ evalFn = "none"
    /\ evalFn' = "normalizeTest"
    /\ evalArgs' = <<req>>
    /\ evalResult' = normalizeTest(req)

\* the content types a model writes, under either spelling, '' included
ContentTypes == { <<"a","p","p","l","i","c","a","t","i","o","n","/","j","s","o","n">>, <<"t","e","x","t","/","p","l","a","i","n">>, <<>> }

\* the headers of the model's tests: none, or a Content-Type, a content-type or both
ModelHeaders ==
    {Undefined, Obj(<<>>)}
    \cup {Obj(<<Entry(<<"C","o","n","t","e","n","t","-","T","y","p","e">>, Str(u))>>) : u \in ContentTypes}
    \cup {Obj(<<Entry(<<"c","o","n","t","e","n","t","-","t","y","p","e">>, Str(l))>>) : l \in ContentTypes}
    \cup {Obj(<<Entry(<<"C","o","n","t","e","n","t","-","T","y","p","e">>, Str(u)), Entry(<<"c","o","n","t","e","n","t","-","t","y","p","e">>, Str(l))>>) :
             u \in ContentTypes, l \in ContentTypes}

\* the bodies of the model's tests: raw strings, objects, and neither
ModelBodies ==
    { Str(<<"{","\"","a","m","o","u","n","t","\"",":">>), Str(<<>>), Obj(<<Entry(<<"a","m","o","u","n","t">>, Num(<<"0">>))>>),
      Arr(<<"[","1","]">>, 1), Null, Undefined, Num(<<"5">>) }

ModelRequests == {[headers |-> hs, body |-> b] : hs \in ModelHeaders, b \in ModelBodies}

-----------------------------------------------------------------------------
(* The specifications *)

InitGen ==
    /\ pointer \in Pointers
    /\ \E inp \in GenInputs : requestConfig = inp.cfg /\ heap = inp.heap
    /\ count \in 0..MaxCount
    /\ entropy = 0
    /\ genPc = "idle"
    /\ i = 0
    /\ tests = <<>>
    /\ returned = <<>>

GenIdle ==
    /\ pointer = <<>>
    /\ requestConfig = BareConfig.cfg
    /\ heap = <<>>
    /\ count = 0
    /\ entropy = 0
    /\ genPc = "idle"
    /\ i = 0
    /\ tests = <<>>
    /\ returned = <<>>

NextGen ==
    \/ GetMockResponseCall /\ UNCHANGED <<apiVars, cmpVars, runVars, evalVars>>
    \/ GetMockResponseLoop /\ UNCHANGED <<apiVars, cmpVars, runVars, evalVars>>
    \/ GetMockResponseReturn /\ UNCHANGED <<apiVars, cmpVars, runVars, evalVars>>

\* the generator: getMockResponse called MaxCalls times on the same arguments
InitSpecGen == InitGen /\ ApiIdle /\ CmpIdle /\ RunIdle /\ EvalIdle
SpecGen == InitSpecGen /\ [][NextGen]_vars

NextApi ==
    \/ RunTestCall /\ UNCHANGED <<genVars, cmpVars, runVars, evalVars>>
    \/ RunTestResume /\ UNCHANGED <<genVars, cmpVars, runVars, evalVars>>

\* the mock executor: runTest called again and again on one request; the
\* timer it awaits fires
InitSpecApi == GenIdle /\ InitApi /\ CmpIdle /\ RunIdle /\ EvalIdle
SpecApi == InitSpecApi /\ [][NextApi]_vars /\ WF_apiVars(RunTestResume)

NextCmp ==
    \/ CompareTestCall /\ UNCHANGED <<genVars, apiVars, runVars, evalVars>>

\* the comparator: compareTest called once on a pair of tests
InitSpecCmp == GenIdle /\ ApiIdle /\ InitCmp /\ RunIdle /\ EvalIdle
SpecCmp == InitSpecCmp /\ [][NextCmp]_vars

NextRun ==
    \/ \E batch \in Batches : AddGeneratedTests(batch) /\ UNCHANGED <<genVars, apiVars, cmpVars, evalVars>>
    \/ \E id \in 1..6 : ToggleRunMode(id) /\ UNCHANGED <<genVars, apiVars, cmpVars, evalVars>>
    \/ \E k \in 1..MaxQueue : HandleRunTest(k) /\ UNCHANGED <<genVars, apiVars, cmpVars, evalVars>>
    \/ HandleRunSuite /\ UNCHANGED <<genVars, apiVars, cmpVars, evalVars>>
    \/ \E c \in calls, reply \in Replies :
          TransportSettles(c, reply) /\ UNCHANGED <<genVars, apiVars, cmpVars, evalVars>>
    \/ \E requestObj \in 1..6 :
          HandleReplay(requestObj) /\ UNCHANGED <<genVars, apiVars, cmpVars, evalVars>>
    \/ \E r \in replays, reply \in Replies :
          ReplaySettles(r, reply) /\ UNCHANGED <<genVars, apiVars, cmpVars, evalVars>>

\* the runner: the operator adds batches, toggles modes, runs single tests and
\* presses Run Suite while the transport settles the calls in any order
InitSpecRun == GenIdle /\ ApiIdle /\ CmpIdle /\ InitRun /\ EvalIdle
SpecRun == InitSpecRun /\ [][NextRun]_vars

\* one Run Suite on its own: the operator adds batches, toggles modes and
\* presses Run Suite once, and the transport settles every call sooner or later
SuiteSettles == \E c \in calls, reply \in Replies : TransportSettles(c, reply)

NextSuite ==
    \/ \E batch \in Batches : AddGeneratedTests(batch) /\ UNCHANGED <<genVars, apiVars, cmpVars, evalVars>>
    \/ \E id \in 1..6 : ToggleRunMode(id) /\ UNCHANGED <<genVars, apiVars, cmpVars, evalVars>>
    \/ suites = <<>> /\ HandleRunSuite /\ UNCHANGED <<genVars, apiVars, cmpVars, evalVars>>
    \/ SuiteSettles /\ UNCHANGED <<genVars, apiVars, cmpVars, evalVars>>

InitSpecRunFair == GenIdle /\ ApiIdle /\ CmpIdle /\ InitRun /\ EvalIdle
SpecRunFair == InitSpecRunFair /\ [][NextSuite]_vars /\ WF_runVars(SuiteSettles)

NextEval ==
    \/ \E test \in ValTests \cup ValMixedTests :
          ValidateTestCall(test) /\ UNCHANGED <<genVars, apiVars, cmpVars, runVars>>
    \/ \E ts \in ValBatches :
          ValidateTestsCall(ts) /\ UNCHANGED <<genVars, apiVars, cmpVars, runVars>>
    \/ \E ts \in CovBatches :
          AnalyzeCoverageCall(ts) /\ UNCHANGED <<genVars, apiVars, cmpVars, runVars>>
    \/ \E coverage \in CovReports :
          CalculateCoverageScoreCall(coverage) /\ UNCHANGED <<genVars, apiVars, cmpVars, runVars>>
    \/ \E ptr \in Pointers, inp \in GenInputs, cnt \in 0..MaxCount :
          CoverageEvalCall(ptr, inp, cnt) /\ UNCHANGED <<genVars, apiVars, cmpVars, runVars>>
    \/ \E userPointer \in IntentPointers :
          ExtractKeywordsCall(userPointer) /\ UNCHANGED <<genVars, apiVars, cmpVars, runVars>>
    \/ \E keywords \in IntentKeywords, test \in IntentTests :
          CalculateKeywordMatchCall(keywords, test)
          /\ UNCHANGED <<genVars, apiVars, cmpVars, runVars>>
    \/ \E userPointer \in IntentSuitePointers, ts \in IntentSuites :
          EvaluateIntentAlignmentCall(userPointer, ts)
          /\ UNCHANGED <<genVars, apiVars, cmpVars, runVars>>
    \/ \E gen \in SuiteTests, goldenTests \in GoldenSuites :
          FindBestMatchCall(gen, goldenTests)
          /\ UNCHANGED <<genVars, apiVars, cmpVars, runVars>>
    \/ \E generatedTests \in GeneratedSuites, goldenTests \in GoldenSuites :
          CompareTestSuiteCall(generatedTests, goldenTests)
          /\ UNCHANGED <<genVars, apiVars, cmpVars, runVars>>
    \/ \E req \in ModelRequests :
          NormalizeTestCall(req) /\ UNCHANGED <<genVars, apiVars, cmpVars, runVars>>

\* the evaluators: each function called on each of its inputs
InitSpecEval == GenIdle /\ ApiIdle /\ CmpIdle /\ RunIdle /\ InitEval
SpecEval == InitSpecEval /\ [][NextEval]_vars


-----------------------------------------------------------------------------
(* Claims about the generator, under SpecGen *)

\* a returned test as a reader sees it: every field but id, the objects by content
Visible(test, h) ==
    [ name |-> test.name,
      method |-> test.request.method,
      path |-> test.request.path,
      headers |-> h[test.request.headers],
      body |-> h[test.request.body],
      tags |-> test.tags,
      priority |-> test.priority,
      run_mode |-> test.run_mode,
      user_requested |-> test.user_requested ]

\* C1: every call returns exactly count tests, and the test at index i is
\* flagged user_requested exactly when i < 3 (TLA+ positions are i + 1)
C1_CountAndFlags ==
    \A r \in 1..Len(returned) :
        /\ Len(returned[r].tests) = count
        /\ returned[r].count = count
        /\ \A k \in 1..Len(returned[r].tests) :
              returned[r].tests[k].user_requested = (k <= 3)

\* C1 witness: a returned batch longer than three, its third test flagged
\* and its fourth not
C1_Witness ==
    /\ Len(returned) >= 1
    /\ count > 3
    /\ returned[1].tests[3].user_requested
    /\ ~returned[1].tests[4].user_requested

\* C8 (as claimed): the names of one returned batch are pairwise distinct and
\* checkUniqueness reports no duplicate name
C8_NamesUnique ==
    \A r \in 1..Len(returned) :
        /\ checkUniqueness(returned[r].tests, heap).duplicates = <<>>
        /\ \A a, b \in 1..Len(returned[r].tests) :
              a # b => returned[r].tests[a].name # returned[r].tests[b].name

\* C9: two calls on the same arguments return batches that agree, position
\* by position, on every field except id
C9_Deterministic ==
    \A a, b \in 1..Len(returned) :
        /\ Len(returned[a].tests) = Len(returned[b].tests)
        /\ \A k \in 1..Len(returned[a].tests) :
              Visible(returned[a].tests[k], heap) = Visible(returned[b].tests[k], heap)

\* C9 witness: two returned batches whose ids differ
C9_Witness ==
    /\ Len(returned) = 2
    /\ count >= 10
    /\ returned[1].tests[1].id # returned[2].tests[1].id
    /\ Visible(returned[1].tests[10], heap) = Visible(returned[2].tests[10], heap)

\* C25: in every returned batch the test at index i has run_mode auto for
\* i <= 2, and for i >= 3 auto when i is even and manual when i is odd; its
\* tags and priority are those of catalogue entry i mod 14
C25_ModeTagsPriority ==
    \A r \in 1..Len(returned) : \A k \in 1..Len(returned[r].tests) :
        LET test == returned[r].tests[k]
            index == k - 1
        IN  /\ index <= 2 => test.run_mode = <<"a","u","t","o">>
            /\ (index >= 3 /\ index % 2 = 0) => test.run_mode = <<"a","u","t","o">>
            /\ (index >= 3 /\ index % 2 = 1) => test.run_mode = <<"m","a","n","u","a","l">>
            /\ test.tags = testTypes[(index % 14) + 1].tags
            /\ test.priority = testTypes[(index % 14) + 1].priority

\* C25 witness: a returned batch longer than the catalogue; the test at
\* index 14 has the tags of entry 0 and the one at index 15 is manual
C25_Witness ==
    /\ Len(returned) >= 1
    /\ count >= 16
    /\ returned[1].tests[15].tags = <<<<"u","s","e","r","-","r","e","q","u","e","s","t","e","d">>, <<"d","i","r","e","c","t">>>>
    /\ returned[1].tests[15].run_mode = <<"a","u","t","o">>
    /\ returned[1].tests[16].priority = <<"h","i","g","h">>
    /\ returned[1].tests[16].run_mode = <<"m","a","n","u","a","l">>

\* the archetypes that overwrite the first numeric key, and the first string key
NumericTargets == {"boundary", "negative", "large-value", "type-coercion"}
StringTargets ==
    {"empty", "empty-null", "injection-sql", "injection-xss", "type-coercion-bool"}

\* requestConfig.body as the caller passed it: its entries, none when absent
BaseBody == IF requestConfig.body = NoRef THEN <<>> ELSE heap[requestConfig.body]

\* the base body has no key whose value has the type
NoKeyOfType(type) == \A j \in 1..Len(BaseBody) : TypeOf(BaseBody[j].v) # type

\* the archetype of the test at position k of a batch
ArchetypeAt(k) == testTypes[((k - 1) % 14) + 1]

\* an archetype without a key of the type it targets leaves the body as the
\* base body, and the test has the archetype's name, tags and priority
UntargetedUnchanged ==
    \A r \in 1..Len(returned) : \A k \in 1..Len(returned[r].tests) :
        LET test == returned[r].tests[k]
        IN  (\/ ArchetypeAt(k).type \in NumericTargets /\ NoKeyOfType("number")
             \/ ArchetypeAt(k).type \in StringTargets /\ NoKeyOfType("string"))
            => /\ heap[test.request.body] = BaseBody
               /\ test.name = TestName(ArchetypeAt(k).type, pointer, k - 1)
               /\ Len(test.name) > 10 /\ SubSeq(test.name, 1, 10) = <<"T","e","s","t"," ","w","i","t","h"," ">>
               /\ test.tags = ArchetypeAt(k).tags
               /\ test.priority = ArchetypeAt(k).priority

\* C26 (as claimed): an archetype without a key of its type leaves the body
\* unchanged, and for an empty or absent base body every test of the batch
\* has an empty body
C26_EmptyBodyUnchanged ==
    /\ UntargetedUnchanged
    /\ BaseBody = <<>> =>
          \A r \in 1..Len(returned) : \A k \in 1..Len(returned[r].tests) :
              heap[returned[r].tests[k].request.body] = <<>>

\* C26 (amended): an archetype without a key of its type leaves the body
\* unchanged, and for an empty or absent base body every test has an empty
\* body except the extra-field tests, whose body is the one added field
C26_EmptyBodyButExtraField ==
    /\ UntargetedUnchanged
    /\ BaseBody = <<>> =>
          \A r \in 1..Len(returned) : \A k \in 1..Len(returned[r].tests) :
              heap[returned[r].tests[k].request.body] =
                 IF ArchetypeAt(k).type = "extra-field"
                 THEN <<Entry(<<"u","n","e","x","p","e","c","t","e","d","F","i","e","l","d">>, Str(<<"u","n","e","x","p","e","c","t","e","d","_","v","a","l","u","e">>))>>
                 ELSE <<>>

\* C26 witness: a batch of ten or more tests was returned for a request
\* without a body: the missing-field test has an empty body and the
\* extra-field test has the added field
C26_Witness ==
    /\ Len(returned) >= 1
    /\ count >= 10
    /\ requestConfig.body = NoRef
    /\ heap[returned[1].tests[4].request.body] = <<>>
    /\ heap[returned[1].tests[9].request.body] = <<>>
    /\ Len(heap[returned[1].tests[10].request.body]) = 1

\* a step leaves requestConfig and the objects it refers to as they were
InputUnchanged ==
    /\ requestConfig' = requestConfig
    /\ \A ref \in {requestConfig.headers, requestConfig.body} \ {NoRef} :
          heap'[ref] = heap[ref]

\* C10: no step of the generator changes requestConfig or the objects it
\* refers to (its headers and every key and value of its body)
C10_InputNotMutated == [][InputUnchanged]_vars

\* C10 witness: a batch with the missing-field and extra-field tests was
\* returned, their bodies differ from the input body, which has its two keys
C10_Witness ==
    /\ Len(returned) >= 1
    /\ count >= 10
    /\ requestConfig.body # NoRef
    /\ heap[requestConfig.body] = OrdersBody
    /\ Len(heap[returned[1].tests[9].request.body]) = 1
    /\ Len(heap[returned[1].tests[10].request.body]) = 3

-----------------------------------------------------------------------------
(* Claims about the golden comparator, under SpecCmp *)

AllSixChecks == <<<<"m","e","t","h","o","d">>, <<"p","a","t","h">>, <<"p","r","i","o","r","i","t","y">>, <<"u","s","e","r","_","r","e","q","u","e","s","t","e","d">>, <<"t","a","g","s">>, <<"b","o","d","y","_","s","t","r","u","c","t","u","r","e">>>>

\* C2 (as claimed): a test compared to itself scores 1, with all six checks
\* in matches and no mismatches
C2_Reflexive ==
    (comparison # NoComparison /\ generated = golden) =>
        /\ comparison.score.num = comparison.score.den
        /\ comparison.matches = AllSixChecks
        /\ comparison.mismatches = <<>>

-----------------------------------------------------------------------------
(* Claims about the mock request executor, under SpecApi *)

OrdersPath == Str(<<"/","o","r","d","e","r","s">>)
UsersPath == Str(<<"/","u","s","e","r","s">>)

\* the request is for /orders with an object body whose amount is the number 0
ZeroAmountOrder ==
    /\ request.path = OrdersPath
    /\ request.body.t = "object"
    /\ Get(request.body.kv, <<"a","m","o","u","n","t">>) = Num(<<"0">>)

\* C5: a /orders request whose body is not a string and has amount 0 settles
\* with status 400 or 500 and the amount rule's error, never 201, whatever its
\* currency and items; and both statuses are outcomes of the call
C5_ZeroAmountNever201 ==
    ZeroAmountOrder =>
        /\ apiPc = "settled" =>
              /\ response.kind = "return"
              /\ response.status \in {400, 500}
              /\ response \in {ZeroAmount400, ZeroAmount500}
        /\ apiPc = "delay" =>
              {out.status : out \in runTestOutcomes(request)} = {400, 500}

\* C5 witness: amount 0 together with currency XYZ and empty items settled 500
C5_Witness ==
    /\ ZeroAmountOrder
    /\ Get(request.body.kv, <<"c","u","r","r","e","n","c","y">>) = Str(<<"X","Y","Z">>)
    /\ Get(request.body.kv, <<"i","t","e","m","s">>) = Arr(<<"[","]">>, 0)
    /\ apiPc = "settled"
    /\ response.status = 500

\* the email of the request, undefined when the body has none
EmailOf(body) == IF body.t = "object" THEN Get(body.kv, <<"e","m","a","i","l">>) ELSE Undefined

\* C6: on /users the status is 500 when the body or its email is missing or
\* empty (falsy, as !body and !body.email test it), 409 when the email is
\* duplicate@example.com, and 201 otherwise
C6_UsersStatus ==
    (request.path = UsersPath /\ apiPc = "settled") =>
        /\ response.kind = "return"
        /\ response.status =
              IF ~Truthy(request.body) \/ ~Truthy(EmailOf(request.body)) THEN 500
              ELSE IF EmailOf(request.body) = Str(<<"d","u","p","l","i","c","a","t","e","@","e","x","a","m","p","l","e",".","c","o","m">>) THEN 409
              ELSE 201

\* C6 witness: the duplicate email beside other fields settled 409
C6_Witness ==
    /\ request.path = UsersPath
    /\ EmailOf(request.body) = Str(<<"d","u","p","l","i","c","a","t","e","@","e","x","a","m","p","l","e",".","c","o","m">>)
    /\ Len(request.body.kv) > 1
    /\ apiPc = "settled"
    /\ response.status = 409

\* a call settled as the claim wants: returned, with one of the five statuses
SettledNormally ==
    /\ apiPc = "settled"
    /\ response.kind = "return"
    /\ response.status \in {200, 201, 400, 409, 500}

\* C7: every call settles, and settles by returning a response whose status
\* is 200, 201, 400, 409 or 500, never by throwing; a path other than /orders
\* and /users gives 200 with an empty body
C7_AlwaysReturns ==
    /\ [](apiPc = "settled" =>
            /\ SettledNormally
            /\ request.path \notin {OrdersPath, UsersPath} =>
                  response.status = 200 /\ response.body = Obj(<<>>))
    /\ (apiPc = "delay" ~> SettledNormally)

\* C7 witness: a /orders call with a null body returned
C7_Witness ==
    /\ request.path = OrdersPath
    /\ request.body = Null
    /\ SettledNormally

-----------------------------------------------------------------------------
(* Claims about the queue runner, under SpecRun *)

\* the test a suite invocation started a-th, as the invocation read it
Started(su, a) == su.tests[su.ran[a].qpos]

\* C3: in every Run Suite invocation the user-requested tests are started
\* before the others, the tests of each group are started in queue order, and
\* no test started has run_mode manual in the queue the invocation read
C3_SuiteOrder ==
    \A s \in 1..Len(suites) :
        LET su == suites[s]
        IN  /\ \A a, b \in 1..Len(su.ran) :
                  a < b =>
                    /\ su.ran[a].startedAt < su.ran[b].startedAt
                    /\ Started(su, b).user_requested => Started(su, a).user_requested
                    /\ Started(su, a).user_requested = Started(su, b).user_requested
                          => su.ran[a].qpos < su.ran[b].qpos
            /\ \A a \in 1..Len(su.ran) : Started(su, a).run_mode # <<"m","a","n","u","a","l">>

\* C3 witness: an invocation has started three tests, a user-requested one
\* ahead of an earlier-queued test, and has passed over a manual test
C3_Witness ==
    \E s \in 1..Len(suites) :
        LET su == suites[s]
        IN  /\ Len(su.ran) >= 3
            /\ \E a, b \in 1..Len(su.ran) : a < b /\ su.ran[a].qpos > su.ran[b].qpos
            /\ \E a, b \in 1..Len(su.ran) :
                  /\ a < b
                  /\ Started(su, a).user_requested
                  /\ Started(su, b).user_requested
            /\ \E k \in 1..Len(su.tests) :
                  /\ su.tests[k].run_mode = <<"m","a","n","u","a","l">>
                  /\ su.tests[k].user_requested
                  /\ \E a \in 1..Len(su.ran) : su.ran[a].qpos > k

\* the calls a suite invocation has in flight
InFlight(s) == {c \in calls : c.owner = s}

\* the finished log entry of the call that logged its pending entry at time t
FinishedEntries(t) ==
    {k \in 1..Len(results) :
        results[k].startedAt = t /\ results[k].response # NoReply}

\* C4: a Run Suite invocation has at most one request in flight, and each
\* test it starts is started after the finished entry of the one before is logged
C4_OneAtATime ==
    \A s \in 1..Len(suites) :
        /\ Cardinality(InFlight(s)) <= 1
        /\ \A b \in 2..Len(suites[s].ran) :
              \E k \in FinishedEntries(suites[s].ran[b - 1].startedAt) :
                  results[k].finishedAt < suites[s].ran[b].startedAt

\* C4 witness: an invocation is awaiting its second test while a call it
\* does not own is in flight as well
C4_Witness ==
    \E s \in 1..Len(suites) :
        /\ Len(suites[s].ran) >= 2
        /\ Cardinality(InFlight(s)) = 1
        /\ \E c \in calls : c.owner # s

\* the a-th test of suite invocation s was settled by a failing transport
FailedInSuite(s, a) ==
    \E k \in 1..Len(results) :
        /\ results[k].response = ErrorReply
        /\ results[k].startedAt = suites[s].ran[a].startedAt

\* the step in which the transport fails call c: the call is awaited no
\* longer and a failure is counted
FailsIn(c) == c \notin calls' /\ failures' = failures + 1

\* the entry at place n of the log after the step finishes the pending entry
\* of call c with an error response
ErrorEntryAt(c, n) ==
    /\ n <= Len(results')
    /\ results'[n].testName = c.log.testName
    /\ results'[n].startedAt = c.log.startedAt
    /\ results'[n].request = c.log.request
    /\ results'[n].finishedAt >= c.log.startedAt
    /\ results'[n].response = ErrorReply

\* the Run Suite invocation that awaited call c goes on in the same step: it
\* starts the next test of its run order that is not manual, or completes
SuiteGoesOn(c) ==
    LET su == suites[c.owner]
        after == {q \in (su.pos + 1)..Len(su.priority) :
                     su.tests[su.priority[q]].run_mode # <<"m","a","n","u","a","l">>}
    IN  IF after # {}
        THEN LET p == CHOOSE q \in after : \A r \in after : q <= r
             IN  /\ suites'[c.owner].pos = p
                 /\ \E d \in calls' :
                       /\ d \notin calls
                       /\ d.owner = c.owner
                       /\ d.log.testName = su.tests[su.priority[p]].name
                       /\ d.log = results'[1]
        ELSE /\ suites'[c.owner].pos > Len(su.priority)
             /\ \A d \in calls' : d.owner # c.owner

\* C23: a failing transport call is not propagated by handleRunTest: in the
\* step in which the call fails a finished entry with an error response is
\* logged for its test, and a Run Suite that awaited it goes on to the next
\* test it runs, or completes
C23_FailureLogged ==
    [][\A c \in calls :
          FailsIn(c) =>
             /\ ErrorEntryAt(c, 1) \/ ErrorEntryAt(c, 2)
             /\ c.owner # 0 => SuiteGoesOn(c)]_vars

\* C23 witness: the first test of a Run Suite failed, its error entry is
\* logged and the invocation is awaiting its second test
C23_Witness ==
    \E s \in 1..Len(suites) :
        /\ Len(suites[s].ran) >= 2
        /\ FailedInSuite(s, 1)
        /\ Cardinality(InFlight(s)) = 1

\* a Run Suite invocation has left its loop and awaits nothing
SuiteCompleted(s) ==
    /\ suites[s].pos > Len(suites[s].priority)
    /\ InFlight(s) = {}

\* the entries logged for the test started at time t: pending or finished
EntriesOf(name, t, pending) ==
    {k \in 1..Len(results) :
        /\ results[k].testName = name
        /\ results[k].startedAt = t
        /\ (results[k].response = NoReply) = pending}

\* every test that was auto in the queue the invocation read was run once by
\* it, with one pending and one finished entry
EachAutoOnce(s) ==
    LET su == suites[s]
    IN  \A k \in 1..Len(su.tests) :
           su.tests[k].run_mode = <<"a","u","t","o">> =>
              /\ Cardinality({a \in 1..Len(su.ran) : su.ran[a].qpos = k}) = 1
              /\ \A a \in 1..Len(su.ran) :
                    su.ran[a].qpos = k =>
                       /\ Cardinality(EntriesOf(su.tests[k].name, su.ran[a].startedAt, TRUE)) = 1
                       /\ Cardinality(EntriesOf(su.tests[k].name, su.ran[a].startedAt, FALSE)) = 1

\* C27: when the transport settles every call, every Run Suite invocation
\* completes, and on completion each test that was auto in the queue when it
\* started has been run exactly once by it, whatever is added to the queue
\* or toggled in the meantime
C27_SuiteCompletes ==
    \A s \in 1..MaxClicks :
        (Len(suites) >= s) ~> (Len(suites) >= s /\ SuiteCompleted(s) /\ EachAutoOnce(s))

\* C27 witness: an invocation has completed after running two tests, one of
\* which was toggled to manual in the queue after the invocation started,
\* and the queue has grown since
C27_Witness ==
    \E s \in 1..Len(suites) :
        /\ SuiteCompleted(s)
        /\ Len(suites[s].ran) >= 2
        /\ Len(queue) > Len(suites[s].tests)
        /\ \E a \in 1..Len(suites[s].ran), k \in 1..Len(queue) :
              /\ queue[k].id = Started(suites[s], a).id
              /\ queue[k].run_mode = <<"m","a","n","u","a","l">>

\* C28 (as claimed): whatever the operator presses (Run Suite again during
\* a suite run, Run on a single test, Replay), at most one request is
\* awaiting the transport at any time
C28_OneRequestInFlight == Cardinality(calls) + Cardinality(replays) <= 1

\* C29 (as claimed): after any addGeneratedTests calls from an empty queue
\* no two queued tests have the same name, two tests of one batch included
C29_QueueNamesUnique ==
    \A a, b \in 1..Len(queue) : a # b => queue[a].name # queue[b].name

\* C24: the results log only grows: every step of Run, Run Suite, Replay
\* and of the transport leaves the entries already logged as they are and in
\* their order, and puts its new entries on top
C24_AppendOnly ==
    [][\E n \in 0..2 :
          /\ Len(results') = Len(results) + n
          /\ SubSeq(results', n + 1, Len(results')) = results]_vars

\* C24 witness: a replayed request was logged while a Run Suite was in
\* progress, between the entries of the suite's tests
C24_Witness ==
    \E k \in 2..(Len(results) - 1) :
        /\ results[k].testName = <<"r","e","p","l","a","y">>
        /\ \E s \in 1..Len(suites) :
              /\ Len(suites[s].ran) >= 2
              /\ suites[s].ran[1].startedAt < results[k].startedAt
              /\ suites[s].ran[2].startedAt > results[k].startedAt

-----------------------------------------------------------------------------
(* Claims about the structure evaluator, under SpecEval and SpecGen *)

\* the errors validateTests is to report for the tests from position k on:
\* those of each invalid test, each behind 'Test <index>: '
RECURSIVE ErrorsFrom(_, _)
ErrorsFrom(ts, k) ==
    IF k > Len(ts) THEN <<>>
    ELSE LET own == validateTest(ts[k]).errors
         IN  [j \in 1..Len(own) |-> <<"T","e","s","t"," ">> \o NumberToString(k - 1) \o <<":"," ">> \o own[j]]
             \o ErrorsFrom(ts, k + 1)

\* the test at position k is wrong only by lacking priority, the others are valid
OnlyPriorityMissing(ts, k) ==
    /\ ts[k].priority = Undefined
    /\ validateTest([ts[k] EXCEPT !.priority = Str(<<"h","i","g","h">>)]).valid
    /\ \A j \in 1..Len(ts) : j # k => validateTest(ts[j]).valid

\* C11: validateTests partitions the batch into valid and invalid tests, is
\* valid exactly when no test is invalid, and reports exactly the errors of
\* the invalid tests, each prefixed with the test's index; one test lacking
\* only priority gives one error, naming priority and that index
C11_BatchValidation ==
    evalFn = "validateTests" =>
        /\ evalResult.validCount + evalResult.invalidCount = Len(evalArgs)
        /\ evalResult.invalidCount =
              Cardinality({k \in 1..Len(evalArgs) : ~validateTest(evalArgs[k]).valid})
        /\ evalResult.valid <=> evalResult.invalidCount = 0
        /\ evalResult.errors = ErrorsFrom(evalArgs, 1)
        /\ \A k \in 1..Len(evalArgs) :
              OnlyPriorityMissing(evalArgs, k) =>
                /\ ~evalResult.valid
                /\ Len(evalResult.errors) = 1
                /\ StartsWith(evalResult.errors[1],
                              <<"T","e","s","t"," ">> \o NumberToString(k - 1) \o <<":"," ">>)
                /\ Includes(evalResult.errors[1], <<"p","r","i","o","r","i","t","y">>)
                /\ evalResult.invalidCount = 1
                /\ evalResult.validCount = Len(evalArgs) - 1

\* C11 witness: a batch of two whose second test lacks only priority was validated
C11_Witness ==
    /\ evalFn = "validateTests"
    /\ Len(evalArgs) = 2
    /\ OnlyPriorityMissing(evalArgs, 2)
    /\ evalResult.errors = << <<"T","e","s","t"," ","1",":"," ","p","r","i","o","r","i","t","y",":"," ","m","u","s","t"," ","b","e"," ","o","n","e"," ","o","f"," ","h","i","g","h",","," ","m","e","d","i","u","m",","," ","l","o","w">> >>

\* the path of a test's request is a string that is empty or lacks the leading slash
PathBreaksRule(test) ==
    /\ test.request.t = "object"
    /\ Get(test.request.kv, <<"p","a","t","h">>).t = "string"
    /\ ~StartsWith(Get(test.request.kv, <<"p","a","t","h">>).s, <<"/">>)

\* C12 (as claimed): validateTest finds every test invalid, with a
\* request.path error, whose request.path is empty or does not start with '/'
C12_PathRuleEnforced ==
    (evalFn = "validateTest" /\ PathBreaksRule(evalArgs)) =>
        /\ ~evalResult.valid
        /\ \E k \in 1..Len(evalResult.errors) :
              StartsWith(evalResult.errors[k], <<"r","e","q","u","e","s","t",".","p","a","t","h">>)

\* C13: every batch getMockResponse returns passes validateTests: valid, with
\* validCount = count and invalidCount = 0 (each batch is validated in the
\* state in which it has just been returned)
C13_GeneratedTestsValid ==
    (genPc = "idle" /\ Len(returned) >= 1) =>
        LET v == validateTests(BatchValue(returned[Len(returned)].tests, heap))
        IN  /\ v.valid
            /\ v.validCount = count
            /\ v.invalidCount = 0
            /\ v.errors = <<>>

\* C13 witness: a batch of more than fourteen tests was returned for the
\* requestConfig whose path has no leading slash
C13_Witness ==
    /\ Len(returned) >= 1
    /\ count > 14
    /\ requestConfig = RelativeConfig.cfg
    /\ validateTests(BatchValue(returned[1].tests, heap)).validCount = count

-----------------------------------------------------------------------------
(* Claims about the coverage evaluator, under SpecEval *)

\* the categories of a report that meet their required minimum
Meeting(coverage) == {k \in 1..Len(coverage) : coverage[k].count >= coverage[k].required}

\* the entry 'category: found X, required Y' of category cat
GapText(cat) ==
    cat.category \o <<":"," ","f","o","u","n","d"," ">> \o NumberToString(cat.count)
    \o <<","," ","r","e","q","u","i","r","e","d"," ">> \o NumberToString(cat.required)

\* C14: calculateCoverageScore returns total = 6, passed = the number of
\* categories with count >= required, score = passed / total * 100 within
\* 0..100, and one gap entry per failing category, in order
C14_CoverageScore ==
    evalFn = "calculateCoverageScore" =>
        /\ evalResult.total = 6
        /\ evalResult.passed = Cardinality(Meeting(evalArgs))
        /\ evalResult.score.num * evalResult.total = evalResult.passed * 100 * evalResult.score.den
        /\ evalResult.score.den > 0
        /\ 0 <= evalResult.score.num /\ evalResult.score.num <= 100 * evalResult.score.den
        /\ evalResult.passed + Len(evalResult.gaps) = evalResult.total
        /\ evalResult.gaps =
              LET failing == SelectSeq(evalArgs, LAMBDA cat : cat.count < cat.required)
              IN  [k \in 1..Len(failing) |-> GapText(failing[k])]

\* C14 witness: a report with four categories met and two gaps was scored
C14_Witness ==
    /\ evalFn = "calculateCoverageScore"
    /\ evalResult.passed = 4
    /\ evalResult.gaps = << <<"e","m","p","t","y","V","a","l","u","e","s",":"," ","f","o","u","n","d"," ","1",","," ","r","e","q","u","i","r","e","d"," ","2">>,
                            <<"e","x","t","r","a","F","i","e","l","d","s",":"," ","f","o","u","n","d"," ","0",","," ","r","e","q","u","i","r","e","d"," ","1">> >>

\* the serialized form of a test mentions injection, or a tag marks it
MentionsInjection(test) ==
    \/ \E w \in { <<"i","n","j","e","c","t","i","o","n">>, <<"s","q","l">>, <<"x","s","s">>, <<"c","o","m","m","a","n","d">>, <<"s","c","r","i","p","t">> } :
          Includes(ToLowerCase(JsonTest(test)), w)
    \/ \E k \in 1..Len(test.tags.items) :
          \/ Includes(ToLowerCase(test.tags.items[k].s), <<"s","e","c","u","r","i","t","y">>)
          \/ Includes(ToLowerCase(test.tags.items[k].s), <<"i","n","j","e","c","t","i","o","n">>)

\* the category of a report with the given key
CategoryOf(coverage, key) ==
    coverage[CHOOSE k \in 1..Len(coverage) : coverage[k].category = key]

\* C15 (as claimed): analyzeCoverage counts toward injectionTests exactly the
\* tests whose serialized form (name, tags or body) mentions injection or
\* that carry a security or injection tag
C15_InjectionBySerializedForm ==
    evalFn = "analyzeCoverage" =>
        /\ CategoryOf(evalResult, <<"i","n","j","e","c","t","i","o","n","T","e","s","t","s">>).count =
              Len(SelectSeq(evalArgs, MentionsInjection))
        /\ CategoryOf(evalResult, <<"i","n","j","e","c","t","i","o","n","T","e","s","t","s">>).found =
              LET hits == SelectSeq(evalArgs, MentionsInjection)
              IN  [k \in 1..Len(hits) |-> hits[k].name.s]

-----------------------------------------------------------------------------
(* Claims about the intent evaluator, under SpecEval *)

\* the members of a sequence
Members(seq) == {seq[k] : k \in 1..Len(seq)}

\* C16: calculateKeywordMatch splits the keyword list into matchedKeywords
\* and unmatchedKeywords (disjoint, together all keywords, order kept) and
\* returns score = |matchedKeywords| / |keywords| within [0, 1]; for the
\* empty list the score is 1 and both lists are empty
C16_KeywordPartition ==
    evalFn = "calculateKeywordMatch" =>
        LET keywords == evalArgs[1]
            matched == evalResult.matchedKeywords
            unmatched == evalResult.unmatchedKeywords
        IN  /\ matched = SelectSeq(keywords, LAMBDA kw : kw \in Members(matched))
            /\ unmatched = SelectSeq(keywords, LAMBDA kw : kw \notin Members(matched))
            /\ Members(matched) \cap Members(unmatched) = {}
            /\ Len(matched) + Len(unmatched) = Len(keywords)
            /\ evalResult.score.den > 0
            /\ 0 <= evalResult.score.num /\ evalResult.score.num <= evalResult.score.den
            /\ keywords # <<>> =>
                  evalResult.score.num * Len(keywords) = Len(matched) * evalResult.score.den
            /\ keywords = <<>> =>
                  /\ evalResult.score.num = evalResult.score.den
                  /\ matched = <<>> /\ unmatched = <<>>

\* C16 witness: a keyword list was split into a matched and an unmatched part
C16_Witness ==
    /\ evalFn = "calculateKeywordMatch"
    /\ evalArgs[1] = << <<"a","m","o","u","n","t">>, <<"z","e","r","o">> >>
    /\ evalResult.matchedKeywords = << <<"a","m","o","u","n","t">> >>
    /\ evalResult.unmatchedKeywords = << <<"z","e","r","o">> >>

\* C17: every keyword extractKeywords returns is lowercase, longer than one
\* character, no stop word and occurs once; a pointer that is empty, null,
\* undefined or no string gives the empty list
C17_KeywordsClean ==
    evalFn = "extractKeywords" =>
        /\ \A k \in 1..Len(evalResult) :
              /\ evalResult[k] = ToLowerCase(evalResult[k])
              /\ Len(evalResult[k]) > 1
              /\ evalResult[k] \notin stopWords
              /\ evalResult[k] \notin { <<"e","n","s","u","r","e">>, <<"t","o">>, <<"w","h","e","n">>, <<"t","h","e">>, <<"i","s">>, <<"t","e","s","t">>,
                                        <<"v","e","r","i","f","y">> }
              /\ \A j \in 1..Len(evalResult) : evalResult[j] = evalResult[k] => j = k
        /\ (evalArgs.t # "string" \/ evalArgs.s = <<>>) => evalResult = <<>>

\* C17 witness: a pointer with capitals, punctuation, stop words and a
\* repeated word was reduced to its keywords
C17_Witness ==
    /\ evalFn = "extractKeywords"
    /\ evalArgs = Str(<<"T","e","s","t"," ","Z","E","R","O","-","a","m","o","u","n","t",","," ","z","e","r","o"," ","a","m","o","u","n","t"," ","&"," ","Z","e","r","o","-","A","m","o","u","n","t","!">>)
    /\ evalResult = << <<"z","e","r","o","-","a","m","o","u","n","t">>, <<"z","e","r","o">>, <<"a","m","o","u","n","t">> >>

\* the number of tests of a suite that carry user_requested = true
FlaggedIn(ts) == Cardinality({k \in 1..Len(ts) : ts[k].user_requested = Bool(TRUE)})

\* C18 (as claimed): the flag check of evaluateIntentAlignment is valid
\* exactly when exactly three tests of the batch carry user_requested = true,
\* and a batch with more or fewer flagged tests has overallValid = false
C18_ExactlyThreeFlagged ==
    evalFn = "evaluateIntentAlignment" =>
        /\ evalResult.flagCheck.valid <=> (FlaggedIn(evalArgs[2]) = 3)
        /\ FlaggedIn(evalArgs[2]) # 3 => ~evalResult.overallValid

-----------------------------------------------------------------------------
(* Claims about the golden suite comparison, under SpecEval *)

\* the compareTest score of a generated test against the k-th golden test
ScoreAgainst(gen, goldenTests, k) == compareTest(gen, goldenTests[k]).score

\* the first position of the golden list with the highest score
FirstHighest(gen, goldenTests) ==
    CHOOSE k \in 1..Len(goldenTests) :
        /\ \A j \in 1..Len(goldenTests) :
              ScoreAgainst(gen, goldenTests, k).num * ScoreAgainst(gen, goldenTests, j).den
                 >= ScoreAgainst(gen, goldenTests, j).num * ScoreAgainst(gen, goldenTests, k).den
        /\ \A j \in 1..(k - 1) :
              ScoreAgainst(gen, goldenTests, k).num * ScoreAgainst(gen, goldenTests, j).den
                 > ScoreAgainst(gen, goldenTests, j).num * ScoreAgainst(gen, goldenTests, k).den

\* C19 (as claimed): for a non-empty golden list findBestMatch returns the
\* golden test with the highest compareTest score, the first of them when
\* several share it, together with that score
C19_BestMatchIsHighest ==
    evalFn = "findBestMatch" =>
        LET gen == evalArgs[1]
            goldenTests == evalArgs[2]
            first == FirstHighest(gen, goldenTests)
        IN  /\ evalResult.bestMatch = goldenTests[first]
            /\ evalResult.score.num * ScoreAgainst(gen, goldenTests, first).den
                  = ScoreAgainst(gen, goldenTests, first).num * evalResult.score.den

\* the sum of the highest scores of the first k generated tests, as num / den
RECURSIVE SumOfHighest(_, _, _)
SumOfHighest(generatedTests, goldenTests, k) ==
    IF k = 0 THEN [num |-> 0, den |-> 1]
    ELSE LET before == SumOfHighest(generatedTests, goldenTests, k - 1)
             top == ScoreAgainst(generatedTests[k], goldenTests,
                                 FirstHighest(generatedTests[k], goldenTests))
         IN  [num |-> before.num * top.den + top.num * before.den,
              den |-> before.den * top.den]

\* C20 (as claimed): for a non-empty golden suite compareTestSuite records
\* one pairing per generated test, in generated order, and averageScore is
\* the mean of the best-match scores over all generated tests
C20_OnePairingPerGenerated ==
    evalFn = "compareTestSuite" =>
        LET generatedTests == evalArgs[1]
            goldenTests == evalArgs[2]
            sum == SumOfHighest(generatedTests, goldenTests, Len(generatedTests))
        IN  /\ evalResult.totalGenerated = Len(generatedTests)
            /\ Len(evalResult.matches) = evalResult.totalGenerated
            /\ \A k \in 1..Len(evalResult.matches) :
                  evalResult.matches[k].generated = generatedTests[k].name
            /\ Len(generatedTests) > 0 =>
                  evalResult.averageScore.num * sum.den * Len(generatedTests)
                     = sum.num * evalResult.averageScore.den

\* the position of the golden test a generated test is paired with: the first
\* with the highest score, 0 when no golden test scores above 0
PairedWith(gen, goldenTests) ==
    IF ScoreAgainst(gen, goldenTests, FirstHighest(gen, goldenTests)).num > 0
    THEN FirstHighest(gen, goldenTests) ELSE 0

\* the positions of the golden tests paired with at least one generated test
PairedGoldens(generatedTests, goldenTests) ==
    {PairedWith(generatedTests[k], goldenTests) : k \in 1..Len(generatedTests)} \ {0}

\* C21: in every compareTestSuite result goldenCovered counts the distinct
\* golden tests paired with at least one generated test, goldenMissed names
\* exactly the golden tests paired with none, in order, and
\* goldenCovered + |goldenMissed| = totalGolden
C21_GoldenCoverage ==
    evalFn = "compareTestSuite" =>
        LET generatedTests == evalArgs[1]
            goldenTests == evalArgs[2]
            covered == PairedGoldens(generatedTests, goldenTests)
            missed == SelectSeq([k \in 1..Len(goldenTests) |-> k],
                                LAMBDA k : k \notin covered)
            report == evalResult.coverageReport
        IN  /\ evalResult.totalGolden = Len(goldenTests)
            /\ report.goldenCovered = Cardinality(covered)
            /\ report.goldenMissed = [k \in 1..Len(missed) |-> goldenTests[missed[k]].name]
            /\ report.goldenCovered + Len(report.goldenMissed) = evalResult.totalGolden
            /\ \A k \in 1..Len(evalResult.matches) :
                  \E j \in covered : evalResult.matches[k].golden = goldenTests[j].name

\* C21 witness: two generated tests were paired with the same golden test,
\* which is counted once, and the other golden test is reported missed
C21_Witness ==
    /\ evalFn = "compareTestSuite"
    /\ Len(evalArgs[1]) = 2
    /\ Len(evalResult.matches) = 2
    /\ evalResult.matches[1].generated # evalResult.matches[2].generated
    /\ evalResult.matches[1].golden = evalResult.matches[2].golden
    /\ evalResult.coverageReport.goldenCovered = 1
    /\ evalResult.coverageReport.goldenMissed = << <<"U","s","e","r"," ","l","o","o","k","u","p">> >>

-----------------------------------------------------------------------------
(* Claims about the header normalization, under SpecEval *)

\* the content-type headers of a normalized request, under both spellings
ContentTypeHeaders(req) ==
    {j \in 1..Len(req.headers.kv) :
        req.headers.kv[j].k \in { <<"C","o","n","t","e","n","t","-","T","y","p","e">>, <<"c","o","n","t","e","n","t","-","t","y","p","e">> }}

\* C30 (as claimed): after normalization a test whose body is a raw string has
\* no JSON content type under either spelling, and a test whose body is an
\* object has a content-type header
C30_HeadersMatchBody ==
    evalFn = "normalizeTest" =>
        /\ evalResult.body.t = "string" =>
              \A j \in ContentTypeHeaders(evalResult) :
                  ~Includes(ToLowerCase(evalResult.headers.kv[j].v.s), <<"j","s","o","n">>)
        /\ evalResult.body.t \in {"object", "array"} =>
              ContentTypeHeaders(evalResult) # {}

-----------------------------------------------------------------------------
(* Claims about the coverage of the generated batch, under SpecEval *)

\* every category meets its minimum and the score is 100 with no gaps
FullCoverage(coverage, report) ==
    /\ \A k \in 1..Len(coverage) : coverage[k].count >= coverage[k].required
    /\ report.passed = 6 /\ report.total = 6
    /\ report.score.num = 100 * report.score.den
    /\ report.gaps = <<>>

\* the report of the first n tests of a batch, analysed on their own
CoverageOfFirst(ts, n) == analyzeCoverage(SubSeq(ts, 1, n))

\* C22: for every pointer, base request and count >= 10, the first ten
\* generated tests meet every coverage minimum of analyzeCoverage, and
\* calculateCoverageScore on the batch gives score 100 with no gaps
C22_FirstTenCoverAll ==
    (evalFn = "coverageEval" /\ evalArgs[3] >= 10) =>
        /\ Len(evalResult.tests) = evalArgs[3]
        /\ FullCoverage(CoverageOfFirst(evalResult.tests, 10),
                        calculateCoverageScore(CoverageOfFirst(evalResult.tests, 10)))
        /\ FullCoverage(evalResult.coverage, evalResult.report)

\* C22 witness: a batch of exactly ten tests was generated for a request
\* without a body, and it has just the minimum of two type variation tests
C22_Witness ==
    /\ evalFn = "coverageEval" /\ evalArgs[3] = 10
    /\ evalArgs[2].cfg.body = NoRef
    /\ evalResult.coverage[3].category = <<"t","y","p","e","V","a","r","i","a","t","i","o","n","s">>
    /\ evalResult.coverage[3].count = 2
    /\ evalResult.report.gaps = <<>>

====
